---- MODULE Spec2Model ----
(***************************************************************************)
(* A model of cicada-vector: the append-only vector store (db.py), the     *)
(* inverted keyword index (keyword_db.py), the hybrid store and its score  *)
(* fusion (hybrid.py) and the file-level indexing of rag.py.               *)
(*                                                                         *)
(* Conventions.                                                            *)
(*  - Python lists are sequences; list positions are 1-based here.         *)
(*  - Scores are fixed-point numbers in thousandths (Milli = 1.0): cosine  *)
(*    similarity is computed in exact arithmetic and rounded towards zero  *)
(*    to a thousandth, so parallel vectors tie exactly.                    *)
(*  - A file is a sequence of lines; a line is a sequence of JSON tokens   *)
(*    and a flag telling whether the terminating newline was written.      *)
(*  - None is NoneVal; a dict is a record, the empty dict is <<>>.         *)
(***************************************************************************)
EXTENDS Integers, Sequences, FiniteSets, TLC

\* ------------------------------------------------------------------ bounds

\* Most records a store holds in memory.
MaxRecs == 2

\* Most crashes of the writing process in one behaviour.
MaxCrashes == 2

\* Most lines of a vector file that was not written by this program.
MaxLines == 2

\* Most distinct (id, text) pairs added to a keyword index.
MaxAdds == 3

\* Most vector candidates handed to the fusion step.
MaxHits == 2

\* Most ids in a keyword result list handed to the fusion step.
MaxKw == 7

\* The largest k of a hybrid search.
MaxK == 2

\* The most calls of the embedder in one search that can fail.
MaxCalls == 1

\* Most chunks of a file.
MaxChunks == 11

\* Most file-level records of a store whose files are indexed again.
MaxFiles == 2

\* Most records of the vector log in a behaviour of the indexer.
MaxIndexed == 4

\* Most deaths of the indexing process in one behaviour.
MaxDeaths == 1

\* The length of the long file path: one more than the embedding budget of
\* 900 less the 10 characters add_file allows for the prefix.
LongPathChars == 891

\* Most lines of a file whose keyword windows are followed.
MaxWindowLines == 4

\* Most files of one content in a store whose files are indexed twice: one
\* less than the 3 * 10 vector candidates of a search for one file.
MaxFillers == 29

\* ------------------------------------------------------------------ values

Milli == 10 * 100

NoneVal == [py_none |-> TRUE]

EmptyDict == << >>

\* The query vectors.
Vecs == {<<0, 0>>, <<1, 0>>, <<0, 1>>, <<2, 1>>}

\* The arguments of add: the meta argument is omitted (None), empty, or a
\* dict; two ids, one of them used twice; parallel vectors and a zero vector.
AddArgs ==
    {[id |-> "a", vector |-> <<1, 0>>, meta |-> NoneVal],
     [id |-> "b", vector |-> <<1, 0>>, meta |-> [index |-> 1]],
     [id |-> "a", vector |-> <<0, 0>>, meta |-> [index |-> 2]],
     [id |-> "b", vector |-> <<2, 1>>, meta |-> EmptyDict],
     [id |-> "c", vector |-> <<0, 1>>, meta |-> NoneVal]}

Min(a, b) == IF a <= b THEN a ELSE b

Max(a, b) == IF a >= b THEN a ELSE b

Reverse(s) == [i \in 1..Len(s) |-> s[Len(s) + 1 - i]]

\* All orderings of the indices 1..n.
Perms(n) == {p \in [1..n -> 1..n] : \A i, j \in 1..n : i # j => p[i] # p[j]}

\* ------------------------------------------------------------------ JSON lines

LBrace == [t |-> "{"]

RBrace == [t |-> "}"]

Pair(k, v) == [t |-> "pair", k |-> k, v |-> v]

\* json.dumps(record) of add and persist: the text of one object.
JsonDumps(record) ==
    <<LBrace, Pair("id", record.id), Pair("vector", record.vector),
      Pair("meta", record.meta), RBrace>>

\* json.loads accepts a text iff it is exactly one object; a cut-off object
\* or two objects glued on one line raise JSONDecodeError.
JsonValid(text) ==
    /\ Len(text) >= 2
    /\ text[1].t = "{"
    /\ text[Len(text)].t = "}"
    /\ \A i \in 2..(Len(text) - 1) : text[i].t = "pair"

JsonKeys(text) == {text[i].k : i \in 2..(Len(text) - 1)}

\* record[key] of the parsed object (the last pair of that key).
JsonGet(text, key) ==
    LET hits == {i \in 2..(Len(text) - 1) : text[i].k = key}
        last == CHOOSE i \in hits : \A j \in hits : j <= i
    IN  text[last].v

\* ------------------------------------------------------------------ the file

NoFile == [exists |-> FALSE, lines |-> << >>]

\* open(path, 'a'); f.write(text + '\n'): the bytes land right after the
\* file's last byte, so they extend a last line that has no newline.
AppendText(file, text, newline) ==
    LET n == Len(file.lines) IN
    IF n > 0 /\ ~file.lines[n].nl
    THEN [exists |-> TRUE,
          lines |-> [file.lines EXCEPT ![n] = [text |-> @.text \o text, nl |-> newline]]]
    ELSE [exists |-> TRUE,
          lines |-> Append(file.lines, [text |-> text, nl |-> newline])]

\* A faulty variant of AppendLine: the file is opened with 'w', not 'a'.
AppendLineOverwrite(file, text) ==
    [exists |-> TRUE, lines |-> <<[text |-> text, nl |-> TRUE]>>]

\* with open(self.storage_path, 'a') as f: f.write(json.dumps(record) + '\n')
AppendLine(file, text) == AppendText(file, text, TRUE)

\* open(path, 'w'): the file is cut to length 0 when it is opened.
Truncated == [exists |-> TRUE, lines |-> << >>]

\* ------------------------------------------------------------------ VectorDB

VARIABLES
    ids,            \* VectorDB.ids
    vectors,        \* VectorDB.vectors
    metadata,       \* VectorDB.metadata
    dirty,          \* VectorDB._dirty
    numpy_vectors,  \* VectorDB._numpy_vectors: [none, arr]
    storage,        \* the file at VectorDB.storage_path
    has_numpy,      \* HAS_NUMPY of the build
    call,           \* the last call: [op, q, k]
    scores,         \* search: the score of every stored vector
    top_indices,    \* search: the positions returned, in order
    ret,            \* the last call's return value
    raised,         \* the exception the last call raised, "" if none
    pc,             \* where the indexing run stands: idle, add, persist, crashed
    pending,        \* the record of the add in progress
    written,        \* persist: the records written so far
    completed,      \* history: the records of the add calls that returned
    crashes,        \* history: the crashes so far
    index,          \* KeywordDB.index: token -> set of ids
    kw_dirty,       \* KeywordDB._dirty
    added,          \* history: the (id, text) pairs of KeywordDB.add
    kw_storage,     \* the file at KeywordDB.storage_path
    vector_hits,    \* Store.search: the vector candidates
    keyword_hits,   \* Store.search: the keyword result list
    merged,         \* _score_boosting_merge: final_results
    found,          \* Store.search: the list returned
    rag_results,    \* VectorIndex.search: the list returned
    hashes,         \* DirectoryIndexer.hashes / GitIndexer.indexed_commits
    hashes_file,    \* the file at hashes_path
    stats,          \* the run's stats: added, skipped, failed
    consecutive_failures, \* the run's failure counter
    run,            \* where the indexing run stands
    tree,           \* the items the run finds: files of the directory, commits
    trail           \* history: what the runs did, item by item

dbVars == <<ids, vectors, metadata, dirty, numpy_vectors>>

searchVars == <<scores, top_indices, ret>>

runVars == <<pc, pending, written, completed, crashes>>

kwVars == <<index, kw_dirty, added, kw_storage>>

mergeVars == <<vector_hits, keyword_hits, merged, found, rag_results>>

idxVars == <<hashes, hashes_file, stats, consecutive_failures, run, tree, trail>>

vars == <<ids, vectors, metadata, dirty, numpy_vectors, storage, has_numpy,
          call, scores, top_indices, ret, raised,
          pc, pending, written, completed, crashes,
          index, kw_dirty, added, kw_storage,
          vector_hits, keyword_hits, merged, found, rag_results,
          hashes, hashes_file, stats, consecutive_failures, run, tree, trail>>

NoArray == [none |-> TRUE, arr |-> << >>]

\* stats = {'added': 0, 'skipped': 0, 'failed': 0}
NoStats == [added |-> 0, skipped |-> 0, failed |-> 0]

\* No indexing run is under way.
Idle == [at |-> "idle", i |-> 0]

\* No directory or repository has been given to the indexer yet.
NoTree == [kind |-> "none", items |-> << >>]

\* What is remembered of the runs: what happened to each item of the run
\* (events), the three files as the run found them, whether the last run
\* that returned had no failure and the source is as it was then (settled),
\* whether that was so when this run started (rerun), where the last process
\* died (crashed) and the ids it had indexed in the run it died in (redo).
NoTrail ==
    [events |-> << >>, storage_before |-> NoFile, kw_before |-> NoFile,
     hashes_before |-> NoFile, settled |-> FALSE, rerun |-> FALSE,
     crashed |-> "", redo |-> {}]

Array(vs) == [none |-> FALSE, arr |-> vs]

EmptyLoad == [ids |-> << >>, vectors |-> << >>, metadata |-> << >>, error |-> ""]

\* One iteration of the loop of _load.
LoadLine(text, acc) ==
    IF Len(text) = 0 THEN acc
    ELSE IF ~JsonValid(text) THEN acc
    ELSE IF "id" \notin JsonKeys(text) THEN [acc EXCEPT !.error = "KeyError"]
    ELSE IF "vector" \notin JsonKeys(text)
         THEN [acc EXCEPT !.ids = Append(@, JsonGet(text, "id")),
                          !.error = "KeyError"]
    ELSE [ids |-> Append(acc.ids, JsonGet(text, "id")),
          vectors |-> Append(acc.vectors, JsonGet(text, "vector")),
          metadata |-> Append(acc.metadata,
                              IF "meta" \in JsonKeys(text)
                              THEN JsonGet(text, "meta") ELSE EmptyDict),
          error |-> ""]

RECURSIVE LoadLines(_, _)
LoadLines(lines, acc) ==
    IF Len(lines) = 0 \/ acc.error # "" THEN acc
    ELSE LoadLines(Tail(lines), LoadLine(Head(lines).text, acc))

\* VectorDB.__init__ on a storage path: empty lists, then _load if the file
\* exists. error is the exception that escapes the constructor.
Load(file) == IF file.exists THEN LoadLines(file.lines, EmptyLoad) ELSE EmptyLoad

\* `meta or {}`
OrEmpty(meta) == IF meta = NoneVal \/ meta = EmptyDict THEN EmptyDict ELSE meta

Record(id, vector, meta) == [id |-> id, vector |-> vector, meta |-> OrEmpty(meta)]

NoCall == [op |-> "none", q |-> << >>, k |-> 0]

Init ==
    /\ ids = << >>
    /\ vectors = << >>
    /\ metadata = << >>
    /\ dirty = FALSE
    /\ numpy_vectors = NoArray
    /\ storage = NoFile
    /\ has_numpy \in BOOLEAN
    /\ call = NoCall
    /\ scores = << >>
    /\ top_indices = << >>
    /\ ret = << >>
    /\ raised = ""
    /\ pc = "idle"
    /\ pending = NoneVal
    /\ written = 0
    /\ completed = << >>
    /\ crashes = 0
    /\ index = << >>
    /\ kw_dirty = FALSE
    /\ added = {}
    /\ kw_storage = NoFile
    /\ found = << >>
    /\ rag_results = << >>
    /\ hashes = << >>
    /\ hashes_file = NoFile
    /\ stats = NoStats
    /\ consecutive_failures = 0
    /\ run = Idle
    /\ tree = NoTree
    /\ trail = NoTrail
    /\ vector_hits = << >>
    /\ keyword_hits = << >>
    /\ merged = << >>

\* ------------------------------------------------------------------ cosine

RECURSIVE DotFrom(_, _, _)
DotFrom(q, v, i) ==
    IF i > Min(Len(q), Len(v)) THEN 0 ELSE q[i] * v[i] + DotFrom(q, v, i + 1)

\* sum(q * v for q, v in zip(query, vec)); np.dot
Dot(q, v) == DotFrom(q, v, 1)

\* The square of the norm (math.sqrt(sum(x*x ...)), np.linalg.norm).
NormSq(v) == Dot(v, v)

RECURSIVE ISqrtIn(_, _, _)
ISqrtIn(n, lo, hi) ==
    IF lo >= hi THEN lo
    ELSE LET mid == (lo + hi + 1) \div 2 IN
         IF mid * mid <= n THEN ISqrtIn(n, mid, hi) ELSE ISqrtIn(n, lo, mid - 1)

\* The integer part of the square root.
ISqrt(n) == ISqrtIn(n, 0, Min(n, 46340))

\* What a division by zero yields: Python raises ZeroDivisionError.
DivZero == 0 - (2 * Milli)

\* dot / (q_mag * v_mag), in thousandths.
Quotient(dot, qsq, vsq) ==
    IF qsq * vsq = 0 THEN DivZero
    ELSE LET a == ISqrt((Milli * Milli * dot * dot) \div (qsq * vsq)) IN
         IF dot < 0 THEN 0 - a ELSE a

\* A faulty variant of PyScore: the guard on v_mag == 0 is missing.
PyScoreNoGuard(q, v) == Quotient(Dot(q, v), NormSq(q), NormSq(v))

\* The body of the scoring loop of _search_python.
PyScore(q, v) ==
    IF NormSq(v) = 0 THEN 0 ELSE Quotient(Dot(q, v), NormSq(q), NormSq(v))

\* One entry of scores in _search_numpy: a zero norm is replaced by 1e-10,
\* so the quotient is the dot product scaled by a huge positive factor.
NumpyScore(q, v) ==
    IF NormSq(v) = 0 THEN Dot(q, v) * Milli * Milli
    ELSE Quotient(Dot(q, v), NormSq(q), NormSq(v))

\* ------------------------------------------------------------------ top k

\* np.argsort(s): the default sort is not stable, so equal scores come out
\* in any order.
ArgSorts(s) ==
    {p \in Perms(Len(s)) : \A i \in 1..(Len(s) - 1) : s[p[i]] <= s[p[i + 1]]}

\* np.argpartition(s, kth), kth a 1-based position here: the entry at kth is
\* the one a full sort puts there, smaller ones before it, larger ones after.
ArgPartitions(s, kth) ==
    {p \in Perms(Len(s)) :
        \A i \in 1..Len(s) : /\ i < kth => s[p[i]] <= s[p[kth]]
                             /\ i > kth => s[p[i]] >= s[p[kth]]}

\* a[-k:] of a Python sequence, k >= 0: a[-0:] is a[0:], the whole of a.
LastK(a, k) == IF k = 0 THEN a ELSE SubSeq(a, Len(a) - k + 1, Len(a))

\* Step 5 of _search_numpy: the orders top_indices may come out in.
NumpyTopK(s, k) ==
    LET n == Len(s) IN
    IF k >= n THEN {Reverse(p) : p \in ArgSorts(s)}
    ELSE UNION {
           LET top == LastK(part, k)
               sub == [i \in 1..Len(top) |-> s[top[i]]]
           IN  {[i \in 1..Len(top) |-> top[Reverse(o)[i]]] : o \in ArgSorts(sub)}
           : part \in ArgPartitions(s, IF k = 0 THEN 1 ELSE n - k + 1)}

\* scores.sort(key=lambda x: x[0], reverse=True): list.sort is stable, and
\* with reverse=True equal keys keep their original order.
\* The positions 1..n come out by insertion: position n goes behind every
\* earlier position that does not score less.
RECURSIVE StableOrder(_, _)
StableOrder(s, n) ==
    IF n = 0 THEN << >>
    ELSE LET rest == StableOrder(s, n - 1)
             m == Cardinality({i \in 1..Len(rest) : s[rest[i]] >= s[n]})
         IN  SubSeq(rest, 1, m) \o <<n>> \o SubSeq(rest, m + 1, Len(rest))

StableSortDesc(s) == StableOrder(s, Len(s))

\* scores.sort(...); scores[:k] of _search_python, k >= 0.
PyTopK(s, k) == SubSeq(StableSortDesc(s), 1, Min(k, Len(s)))

\* The (id, score, metadata) triples of the positions top.
Results(top, s) ==
    [i \in 1..Len(top) |->
        [id |-> ids[top[i]], score |-> s[top[i]], meta |-> metadata[top[i]]]]

\* ------------------------------------------------------------------ actions

\* A store object exists: no exception escaped the constructor.
Opened == ~(call.op = "open" /\ raised # "")


\* VectorDB.add
Add(id, vector, meta) ==
    /\ Opened
    /\ Len(ids) < MaxRecs
    /\ ids' = Append(ids, id)
    /\ vectors' = Append(vectors, vector)
    /\ metadata' = Append(metadata, OrEmpty(meta))
    /\ dirty' = TRUE
    /\ storage' = AppendLine(storage, JsonDumps(Record(id, vector, meta)))
    /\ numpy_vectors' = NoArray
    /\ call' = [op |-> "add", q |-> << >>, k |-> 0]
    /\ scores' = << >>
    /\ top_indices' = << >>
    /\ ret' = << >>
    /\ raised' = ""
    /\ UNCHANGED <<has_numpy, runVars, kwVars, mergeVars,
                   idxVars>>

\* The record persist writes for position i.
StoredRecord(i) == [id |-> ids[i], vector |-> vectors[i], meta |-> metadata[i]]

RECURSIVE WriteFrom(_, _)
WriteFrom(file, i) ==
    IF i > Len(ids) THEN file
    ELSE WriteFrom(AppendLine(file, JsonDumps(StoredRecord(i))), i + 1)

\* VectorDB.persist
Persist ==
    /\ Opened
    /\ storage' = IF dirty THEN WriteFrom(Truncated, 1) ELSE storage
    /\ dirty' = FALSE
    /\ call' = [op |-> "persist", q |-> << >>, k |-> 0]
    /\ scores' = << >>
    /\ top_indices' = << >>
    /\ ret' = << >>
    /\ raised' = ""
    /\ UNCHANGED <<ids, vectors, metadata, numpy_vectors, has_numpy, runVars, kwVars, mergeVars,
                   idxVars>>

\* The process ends and a new VectorDB is constructed on the same path.
\* After an exception escaped the constructor there is no store to call.
Reopen ==
    LET got == Load(storage) IN
    /\ ids' = got.ids
    /\ vectors' = got.vectors
    /\ metadata' = got.metadata
    /\ dirty' = FALSE
    /\ numpy_vectors' = IF has_numpy /\ got.error = "" /\ Len(got.vectors) > 0
                        THEN Array(got.vectors) ELSE NoArray
    /\ call' = [op |-> "open", q |-> << >>, k |-> 0]
    /\ scores' = << >>
    /\ top_indices' = << >>
    /\ ret' = << >>
    /\ raised' = got.error
    /\ UNCHANGED <<storage, has_numpy, runVars, kwVars, mergeVars,
                   idxVars>>

\* What a call of search leaves behind: the scores, the chosen positions, the
\* returned list, the exception that escaped and the cached array.
Outcome(s, top, results, error, array) ==
    [scores |-> s, top_indices |-> top, ret |-> results, raised |-> error,
     numpy_vectors |-> array]

\* VectorDB._search_numpy: the outcomes the unstable selection allows.
SearchNumpy(q, k) ==
    LET arr == IF numpy_vectors.none THEN vectors ELSE numpy_vectors.arr
        s == [i \in 1..Len(arr) |-> NumpyScore(q, arr[i])]
    IN  IF NormSq(q) = 0
        THEN {Outcome(<< >>, << >>, << >>, "", Array(arr))}
        ELSE {Outcome(s, top, Results(top, s), "", Array(arr)) :
                top \in NumpyTopK(s, k)}

\* VectorDB._search_python
SearchPython(q, k) ==
    LET s == [i \in 1..Len(vectors) |-> PyScore(q, vectors[i])] IN
    IF NormSq(q) = 0
    THEN {Outcome(<< >>, << >>, << >>, "", numpy_vectors)}
    ELSE IF \E i \in 1..Len(s) : s[i] = DivZero
    THEN {Outcome(<< >>, << >>, << >>, "ZeroDivisionError", numpy_vectors)}
    ELSE {Outcome(s, PyTopK(s, k), Results(PyTopK(s, k), s), "", numpy_vectors)}

\* VectorDB.search: the outcomes of one call.
SearchOutcomes(q, k) ==
    IF Len(vectors) = 0
    THEN {Outcome(<< >>, << >>, << >>, "", numpy_vectors)}
    ELSE IF has_numpy THEN SearchNumpy(q, k) ELSE SearchPython(q, k)

\* The body of VectorDB.search: what it returns is ret.
SearchBody(q, k) ==
    \E o \in SearchOutcomes(q, k) :
        /\ scores' = o.scores
        /\ top_indices' = o.top_indices
        /\ ret' = o.ret
        /\ raised' = o.raised
        /\ numpy_vectors' = o.numpy_vectors

\* VectorDB.search
Search(q, k) ==
    /\ Opened
    /\ call' = [op |-> "search", q |-> q, k |-> k]
    /\ SearchBody(q, k)
    /\ UNCHANGED <<ids, vectors, metadata, dirty, storage, has_numpy, runVars, kwVars, mergeVars,
                   idxVars>>

Next ==
    \/ \E a \in AddArgs : Add(a.id, a.vector, a.meta)
    \/ Persist
    \/ Reopen
    \/ \E q \in Vecs, k \in 0..(MaxRecs + 1) : Search(q, k)

Spec == Init /\ [][Next]_vars

\* ------------------------------------------------------------------ crashes

\* The steps of VectorDB.add and VectorDB.persist inside an indexing run
\* (index_directory: one add per item, one persist at the end), with the
\* points at which the process can die between them.

\* VectorDB.add up to the write: the lists grow and the store is dirty.
AddBegin(id, vector, meta) ==
    /\ pc = "idle"
    /\ Opened
    /\ Len(ids) < MaxRecs
    /\ ids' = Append(ids, id)
    /\ vectors' = Append(vectors, vector)
    /\ metadata' = Append(metadata, OrEmpty(meta))
    /\ dirty' = TRUE
    /\ pending' = Record(id, vector, meta)
    /\ pc' = "add"
    /\ call' = [op |-> "add", q |-> << >>, k |-> 0]
    /\ raised' = ""
    /\ UNCHANGED <<numpy_vectors, storage, has_numpy, searchVars,
                   written, completed, crashes,
                   kwVars, mergeVars,
                   idxVars>>

\* VectorDB.add from the write on: the line is appended, the numpy cache is
\* dropped, and add returns.
AddWrite ==
    /\ pc = "add"
    /\ storage' = AppendLine(storage, JsonDumps(pending))
    /\ numpy_vectors' = NoArray
    /\ completed' = Append(completed, pending)
    /\ pending' = NoneVal
    /\ pc' = "idle"
    /\ UNCHANGED <<ids, vectors, metadata, dirty, has_numpy, call, searchVars,
                   raised, written, crashes,
                   kwVars, mergeVars,
                   idxVars>>

\* VectorDB.persist up to open(path, 'w'): a clean store returns at once, a
\* dirty one truncates the file.
PersistOpen ==
    /\ pc = "idle"
    /\ Opened
    /\ call' = [op |-> "persist", q |-> << >>, k |-> 0]
    /\ raised' = ""
    /\ IF dirty
       THEN /\ storage' = Truncated
            /\ pc' = "persist"
            /\ written' = 0
       ELSE UNCHANGED <<storage, pc, written>>
    /\ UNCHANGED <<dbVars, has_numpy, searchVars, pending, completed, crashes,
                   kwVars, mergeVars,
                   idxVars>>

\* One iteration of the loop of persist.
PersistWrite ==
    /\ pc = "persist"
    /\ written < Len(ids)
    /\ storage' = AppendLine(storage, JsonDumps(StoredRecord(written + 1)))
    /\ written' = written + 1
    /\ UNCHANGED <<dbVars, has_numpy, call, searchVars, raised, pc, pending,
                   completed, crashes,
                   kwVars, mergeVars,
                   idxVars>>

\* The end of persist: the file is closed and the store is clean.
PersistClose ==
    /\ pc = "persist"
    /\ written = Len(ids)
    /\ dirty' = FALSE
    /\ written' = 0
    /\ pc' = "idle"
    /\ UNCHANGED <<ids, vectors, metadata, numpy_vectors, storage, has_numpy,
                   call, searchVars, raised, pending, completed, crashes,
                   kwVars, mergeVars,
                   idxVars>>

\* What a write that was cut short leaves: a part of the text that is not
\* the whole object, and no newline.
TornWrites(file, text) ==
    {AppendText(file, SubSeq(text, 1, n), FALSE) : n \in 1..(Len(text) - 1)}

\* The file a crash leaves: as it is, or with a part of the write that was
\* under way.
CrashFiles ==
    {storage} \cup
    (IF pc = "add" THEN TornWrites(storage, JsonDumps(pending))
     ELSE IF pc = "persist" /\ written < Len(ids)
          THEN TornWrites(storage, JsonDumps(StoredRecord(written + 1)))
     ELSE {})

\* The process dies: its memory is gone, the file stays.
Crash ==
    /\ pc \in {"idle", "add", "persist"}
    /\ crashes < MaxCrashes
    /\ storage' \in CrashFiles
    /\ pc' = "crashed"
    /\ crashes' = crashes + 1
    /\ ids' = << >>
    /\ vectors' = << >>
    /\ metadata' = << >>
    /\ dirty' = FALSE
    /\ numpy_vectors' = NoArray
    /\ pending' = NoneVal
    /\ written' = 0
    /\ call' = [op |-> "crash", q |-> << >>, k |-> 0]
    /\ raised' = ""
    /\ UNCHANGED <<has_numpy, searchVars, completed,
                   kwVars, mergeVars,
                   idxVars>>

\* A new process constructs the VectorDB on the same path.
Restart ==
    LET got == Load(storage) IN
    /\ pc = "crashed"
    /\ ids' = got.ids
    /\ vectors' = got.vectors
    /\ metadata' = got.metadata
    /\ dirty' = FALSE
    /\ numpy_vectors' = IF has_numpy /\ got.error = "" /\ Len(got.vectors) > 0
                        THEN Array(got.vectors) ELSE NoArray
    /\ call' = [op |-> "open", q |-> << >>, k |-> 0]
    /\ raised' = got.error
    /\ pc' = "idle"
    /\ UNCHANGED <<storage, has_numpy, searchVars, pending, written,
                   completed, crashes,
                   kwVars, mergeVars,
                   idxVars>>

\* The items of the runs that are followed through crashes.
RunArgs == {a \in AddArgs : a.vector = <<1, 0>>}

NextCrash ==
    \/ \E a \in RunArgs : AddBegin(a.id, a.vector, a.meta)
    \/ AddWrite
    \/ PersistOpen
    \/ PersistWrite
    \/ PersistClose
    \/ Crash
    \/ Restart

SpecCrash == Init /\ [][NextCrash]_vars

\* The records a new process loads from the file.
Reloaded ==
    LET got == Load(storage) IN
    [i \in 1..Len(got.ids) |->
        [id |-> got.ids[i], vector |-> got.vectors[i], meta |-> got.metadata[i]]]

\* ------------------------------------------------------------------ C2

\* C2: whenever the process crashes in an indexing run (between items, inside
\* an add, inside the persist at the end of the run), the store reloaded from
\* disk holds exactly the records of the add calls that completed before the
\* crash, in their order: no partial record, no completed record missing.
C2_CrashKeepsCompleted ==
    pc = "crashed" =>
        /\ Load(storage).error = ""
        /\ Len(Load(storage).vectors) = Len(Load(storage).ids)
        /\ Reloaded = completed

\* ------------------------------------------------------------------ loading

\* The lines of a vector file that another writer or an editor left: records,
\* a record without the optional meta, a blank line, a cut-off record (not
\* JSON), and JSON objects without the id or without the vector.
ForeignLines ==
    {JsonDumps(Record("a", <<1, 0>>, NoneVal)),
     JsonDumps(Record("b", <<0, 1>>, [index |-> 1])),
     <<LBrace, Pair("id", "c"), Pair("vector", <<2, 1>>), RBrace>>,
     << >>,
     <<LBrace, Pair("id", "a"), Pair("vector", <<1, 0>>)>>,
     <<LBrace, Pair("vector", <<1, 0>>), Pair("meta", EmptyDict), RBrace>>,
     <<LBrace, Pair("id", "b"), Pair("meta", EmptyDict), RBrace>>}

ForeignFiles ==
    UNION {{[exists |-> TRUE,
             lines |-> [i \in 1..n |-> [text |-> f[i], nl |-> TRUE]]] :
               f \in [1..n -> ForeignLines]} : n \in 0..MaxLines}

\* The process starts on a storage path that holds such a file.
InitLoad ==
    /\ ids = << >>
    /\ vectors = << >>
    /\ metadata = << >>
    /\ dirty = FALSE
    /\ numpy_vectors = NoArray
    /\ storage \in ForeignFiles
    /\ has_numpy \in BOOLEAN
    /\ call = NoCall
    /\ scores = << >>
    /\ top_indices = << >>
    /\ ret = << >>
    /\ raised = ""
    /\ pc = "idle"
    /\ pending = NoneVal
    /\ written = 0
    /\ completed = << >>
    /\ crashes = 0
    /\ index = << >>
    /\ kw_dirty = FALSE
    /\ added = {}
    /\ kw_storage = NoFile
    /\ found = << >>
    /\ rag_results = << >>
    /\ hashes = << >>
    /\ hashes_file = NoFile
    /\ stats = NoStats
    /\ consecutive_failures = 0
    /\ run = Idle
    /\ tree = NoTree
    /\ trail = NoTrail
    /\ vector_hits = << >>
    /\ keyword_hits = << >>
    /\ merged = << >>

NextLoad ==
    \/ Reopen
    \/ \E q \in Vecs, k \in 0..(MaxLines + 1) : call.op = "open" /\ Search(q, k)

SpecLoad == InitLoad /\ [][NextLoad]_vars

\* A line that is a record: JSON with an id and a vector.
WellFormed(line) ==
    /\ JsonValid(line.text)
    /\ {"id", "vector"} \subseteq JsonKeys(line.text)

\* The ids of the well-formed lines, in file order.
WellFormedIds ==
    LET good == SelectSeq(storage.lines, WellFormed) IN
    [i \in 1..Len(good) |-> JsonGet(good[i].text, "id")]

\* ------------------------------------------------------------------ C3

\* C3: loading never fails because of a malformed line: every line that is
\* not a well-formed record is skipped, every well-formed line is loaded, and
\* the id, vector and metadata sequences have the same length afterwards.
C3_LoadSkipsMalformed ==
    call.op = "open" =>
        /\ raised = ""
        /\ ids = WellFormedIds
        /\ Len(vectors) = Len(ids)
        /\ Len(metadata) = Len(ids)

\* ------------------------------------------------------------------ text

\* A text is a sequence of runs: n times the character c. A token is a text
\* of lowercase word characters in which neighbouring runs differ.
Run(c, n) == [c |-> c, n |-> n]

\* The characters that \w matches, of those that occur in the texts.
WordChars ==
    {"a", "b", "e", "f", "g", "i", "l", "p", "r", "x",
     "A", "B", "F", "P", "X", "_", "1"}

\* str.lower on one character.
Lower(c) ==
    CASE c = "A" -> "a"
      [] c = "B" -> "b"
      [] c = "F" -> "f"
      [] c = "P" -> "p"
      [] c = "X" -> "x"
      [] OTHER -> c

\* len(text)
RECURSIVE TextLen(_)
TextLen(text) == IF Len(text) = 0 THEN 0 ELSE Head(text).n + TextLen(Tail(text))

\* The token cur extended by n lowercased characters c.
Extend(cur, c, n) ==
    IF Len(cur) > 0 /\ cur[Len(cur)].c = Lower(c)
    THEN [cur EXCEPT ![Len(cur)] = Run(Lower(c), @.n + n)]
    ELSE Append(cur, Run(Lower(c), n))

\* The tokens of text from run i on, cur being the word under way: the
\* maximal runs of word characters, lowercased.
RECURSIVE TokensFrom(_, _, _)
TokensFrom(text, i, cur) ==
    IF i > Len(text) THEN (IF Len(cur) = 0 THEN {} ELSE {cur})
    ELSE IF text[i].c \in WordChars
         THEN TokensFrom(text, i + 1, Extend(cur, text[i].c, text[i].n))
    ELSE (IF Len(cur) = 0 THEN {} ELSE {cur}) \cup TokensFrom(text, i + 1, << >>)

\* KeywordDB._tokenize: set(word.lower() for word in re.findall(r"\b\w+\b", text))
Tokenize(text) == TokensFrom(text, 1, << >>)

\* ------------------------------------------------------------------ KeywordDB

\* The index after KeywordDB.add(id, text): a defaultdict, so a token gets
\* its key with its first id.
KwAdd(idx, id, text) ==
    LET tokens == Tokenize(text) IN
    [t \in (DOMAIN idx) \cup tokens |->
        (IF t \in DOMAIN idx THEN idx[t] ELSE {}) \cup
        (IF t \in tokens THEN {id} ELSE {})]

\* A faulty variant of KwSearchSet: the postings are intersected (AND), not united.
KwSearchAll(idx, query) ==
    LET tokens == Tokenize(query) IN
    {id \in UNION {idx[t] : t \in DOMAIN idx} :
        \A t \in tokens : t \in DOMAIN idx /\ id \in idx[t]}

\* A faulty variant of KwSearchSet: every indexed id is a result.
KwSearchEvery(idx, query) == UNION {idx[t] : t \in DOMAIN idx}

\* The set results of KeywordDB.search.
KwSearchSet(idx, query) ==
    UNION {idx[t] : t \in Tokenize(query) \cap DOMAIN idx}

\* list(results): the elements of a set in any order.
ListsOf(S) ==
    {f \in [1..Cardinality(S) -> S] :
        \A i, j \in 1..Cardinality(S) : i # j => f[i] # f[j]}

\* The document ids; an id of one character stands for itself.
DocIds == {"f", "g"}

\* "Ab x", "ab.p_1", "X", "r  r" and "b": the texts that are indexed.
DocTexts ==
    {<<Run("A", 1), Run("b", 1), Run(" ", 1), Run("x", 1)>>,
     <<Run("a", 1), Run("b", 1), Run(".", 1), Run("p", 1), Run("_", 1), Run("1", 1)>>,
     <<Run("x", 1)>>,
     <<Run("r", 1), Run(" ", 2), Run("r", 1)>>,
     <<Run("b", 1)>>}

\* "AB p", "x r", "X", "p_1, b", "a" and "": the queries.
QueryTexts ==
    {<<Run("A", 1), Run("B", 1), Run(" ", 1), Run("p", 1)>>,
     <<Run("x", 1), Run(" ", 1), Run("r", 1)>>,
     <<Run("X", 1)>>,
     <<Run("p", 1), Run("_", 1), Run("1", 1), Run(",", 1), Run(" ", 1), Run("b", 1)>>,
     <<Run("a", 1)>>,
     << >>}

\* KeywordDB.add
KeywordAdd(id, text) ==
    /\ Cardinality(added) < MaxAdds
    /\ index' = KwAdd(index, id, text)
    /\ kw_dirty' = TRUE
    /\ added' = added \cup {<<id, text>>}
    /\ UNCHANGED kw_storage
    /\ call' = [op |-> "kw_add", id |-> id, text |-> text]
    /\ ret' = << >>
    /\ raised' = ""
    /\ UNCHANGED <<dbVars, storage, has_numpy, scores, top_indices, runVars, mergeVars,
                   idxVars>>

\* KeywordDB.search
KeywordSearch(query) ==
    /\ call' = [op |-> "kw_search", query |-> query]
    /\ ret' \in ListsOf(KwSearchSet(index, query))
    /\ raised' = ""
    /\ UNCHANGED <<dbVars, storage, has_numpy, scores, top_indices, runVars,
                   kwVars, mergeVars,
                   idxVars>>

NextKw ==
    \/ \E id \in DocIds, text \in DocTexts : KeywordAdd(id, text)
    \/ \E query \in QueryTexts : KeywordSearch(query)

SpecKw == Init /\ [][NextKw]_vars

\* ------------------------------------------------------------------ add_file

\* The first n characters of text.
RECURSIVE TakeChars(_, _)
TakeChars(text, n) ==
    IF n <= 0 \/ Len(text) = 0 THEN << >>
    ELSE IF Head(text).n <= n
         THEN <<Head(text)>> \o TakeChars(Tail(text), n - Head(text).n)
    ELSE <<Run(Head(text).c, n)>>

\* text[:m]: a negative m counts from the end.
PySlice(text, m) ==
    TakeChars(text, IF m >= 0 THEN m ELSE Max(0, TextLen(text) + m))

\* An optional argument that was left out, or given as val.
Omitted == [given |-> FALSE]

Given(val) == [given |-> TRUE, val |-> val]

\* The path of LongPathChars characters p, by its name.
LongPath == "p*"

\* The characters of a file path; a path of one character is that character.
PathText(file_path) ==
    IF file_path = LongPath THEN <<Run("p", LongPathChars)>>
    ELSE <<Run(file_path, 1)>>

\* "File: "
FilePrefix ==
    <<Run("F", 1), Run("i", 1), Run("l", 1), Run("e", 1), Run(":", 1), Run(" ", 1)>>

\* The embedding budget of add_file, in characters.
MAX_CHARS == 900

\* add_file: the text that is embedded when no embed text was passed.
FileEmbedText(file_path, content) ==
    IF TextLen(content) > MAX_CHARS
    THEN FilePrefix \o PathText(file_path) \o <<Run("\n", 2)>> \o
         PySlice(content, MAX_CHARS - TextLen(PathText(file_path)) - 10)
    ELSE content

\* add_file: metadata = meta or {} with the keys content and file_path set.
FileMeta(file_path, content, meta) ==
    LET base == OrEmpty(meta) IN
    [key \in (DOMAIN base) \cup {"content", "file_path"} |->
        CASE key = "content" -> content
          [] key = "file_path" -> file_path
          [] OTHER -> base[key]]

\* A faulty variant of KeywordText: the keyword index gets the text that is embedded.
KeywordTextEmbedded(text, embed_text) ==
    IF embed_text.given THEN embed_text.val ELSE text

\* Store.add: the text handed to keyword_db.add.
KeywordText(text, embed_text) == text

\* Store.add: the text handed to the embedder when no vector was passed.
TextToEmbed(text, embed_text) ==
    IF embed_text.given THEN embed_text.val ELSE text

\* A faulty variant of StoreAdd: the keyword index is fed before the text is
\* embedded.
StoreAddKeywordFirst(id, text, meta, vector, embed_text, embedded, ok) ==
    LET v == IF vector.given THEN vector.val ELSE embedded IN
    /\ index' = KwAdd(index, id, KeywordText(text, embed_text))
    /\ kw_dirty' = TRUE
    /\ added' = added \cup {<<id, text>>}
    /\ UNCHANGED kw_storage
    /\ IF ~vector.given /\ ~ok
       THEN /\ raised' = "EmbeddingError"
            /\ UNCHANGED <<dbVars, storage>>
       ELSE /\ raised' = ""
            /\ ids' = Append(ids, id)
            /\ vectors' = Append(vectors, v)
            /\ metadata' = Append(metadata, OrEmpty(meta))
            /\ dirty' = TRUE
            /\ storage' = AppendLine(storage, JsonDumps(Record(id, v, meta)))
            /\ numpy_vectors' = NoArray

\* Store.add, the embedder returning embedded or raising when ok is false:
\* vector_db.add and then keyword_db.add; an exception of the embedder leaves
\* both indexes as they were.
StoreAdd(id, text, meta, vector, embed_text, embedded, ok) ==
    LET v == IF vector.given THEN vector.val ELSE embedded IN
    IF ~vector.given /\ ~ok
    THEN /\ raised' = "EmbeddingError"
         /\ UNCHANGED <<dbVars, storage, kwVars>>
    ELSE /\ raised' = ""
         /\ ids' = Append(ids, id)
         /\ vectors' = Append(vectors, v)
         /\ metadata' = Append(metadata, OrEmpty(meta))
         /\ dirty' = TRUE
         /\ storage' = AppendLine(storage, JsonDumps(Record(id, v, meta)))
         /\ numpy_vectors' = NoArray
         /\ index' = KwAdd(index, id, KeywordText(text, embed_text))
         /\ kw_dirty' = TRUE
         /\ added' = added \cup {<<id, text>>}
         /\ UNCHANGED kw_storage

\* The files that are indexed: "ab x"; a content of 903 characters,
\* "a...a bb x", whose tokens bb and x lie past the embedding budget; each
\* with and without an embed text ("ab") and a precomputed vector.
LongContent ==
    <<Run("a", MAX_CHARS - 2), Run(" ", 1), Run("b", 2), Run(" ", 1), Run("x", 1)>>

AddFileArgs ==
    {[file_path |-> "f", content |-> LongContent, meta |-> NoneVal,
      vector |-> Omitted, embed_text |-> Omitted],
     [file_path |-> "g", content |-> LongContent, meta |-> [index |-> 1],
      vector |-> Omitted, embed_text |-> Given(<<Run("a", 1), Run("b", 1)>>)],
     [file_path |-> "f", content |-> LongContent, meta |-> EmptyDict,
      vector |-> Given(<<1, 0>>), embed_text |-> Omitted],
     [file_path |-> "g", content |-> LongContent, meta |-> NoneVal,
      vector |-> Given(<<0, 1>>), embed_text |-> Given(<<Run("a", 1), Run("b", 1)>>)],
     [file_path |-> "f",
      content |-> <<Run("A", 1), Run("b", 1), Run(" ", 1), Run("x", 1)>>,
      meta |-> NoneVal, vector |-> Omitted, embed_text |-> Omitted],
     [file_path |-> "g", content |-> <<Run("r", 1)>>, meta |-> NoneVal,
      vector |-> Omitted, embed_text |-> Omitted]}

\* VectorIndex.add_file
AddFileCall(file_path, content, meta, vector, embed_text, embedded, ok) ==
    LET file_embed_text ==
            IF embed_text.given THEN embed_text.val
            ELSE FileEmbedText(file_path, content)
    IN  /\ Opened
        /\ StoreAdd(file_path, content, FileMeta(file_path, content, meta),
                    vector, Given(file_embed_text), embedded, ok)
        /\ call' = [op |-> "add_file", file_path |-> file_path,
                    content |-> content,
                    to_embed |-> TextToEmbed(content, Given(file_embed_text)),
                    vector |-> vector, embed_text |-> embed_text]
        /\ scores' = << >>
        /\ top_indices' = << >>
        /\ ret' = << >>
        /\ vector_hits' = << >>
        /\ keyword_hits' = << >>
        /\ merged' = << >>
        /\ found' = << >>
        /\ rag_results' = << >>
        /\ UNCHANGED <<has_numpy, runVars, idxVars>>

\* add_file on a store that holds fewer than MaxRecs records.
AddFile(file_path, content, meta, vector, embed_text, embedded, ok) ==
    /\ Len(ids) < MaxRecs
    /\ AddFileCall(file_path, content, meta, vector, embed_text, embedded, ok)

\* ------------------------------------------------------------------ fusion

\* The keyword boost, 0.2.
Boost == 200

\* The score of a keyword-only match at position 0, 0.5.
KeywordBase == 500

\* What a keyword-only match loses per position, 0.02.
KeywordStep == 20

\* The least score of a keyword-only match, 0.4.
KeywordFloor == 400

\* list.index(x): the first position of x, counted from 0.
IndexOf(list, x) ==
    (CHOOSE i \in 1..Len(list) : list[i] = x /\ \A j \in 1..(i - 1) : list[j] # x) - 1

\* The keys of a dict filled from list in order: every element once, at the
\* place of its first occurrence.
RECURSIVE KeysInOrder(_, _)
KeysInOrder(list, seen) ==
    IF Len(list) = 0 THEN << >>
    ELSE IF Head(list) \in seen THEN KeysInOrder(Tail(list), seen)
    ELSE <<Head(list)>> \o KeysInOrder(Tail(list), seen \cup {Head(list)})

\* sorted(keys, key=score, reverse=True): stable, equal scores keep the
\* order of keys. The key x goes behind every key that does not score less.
RECURSIVE SortedDesc(_, _)
SortedDesc(keys, score) ==
    IF Len(keys) = 0 THEN << >>
    ELSE LET x == keys[Len(keys)]
             rest == SortedDesc(SubSeq(keys, 1, Len(keys) - 1), score)
             n == Cardinality({i \in 1..Len(rest) : score[rest[i]] >= score[x]})
         IN  SubSeq(rest, 1, n) \o <<x>> \o SubSeq(rest, n + 1, Len(rest))

\* A faulty variant of Boosted: the boosted score is not clamped.
BoostedUnclamped(score) == score + Boost

\* min(1.0, final_scores[doc_id] + 0.2)
Boosted(score) == Min(Milli, score + Boost)

\* A faulty variant of KeywordOnlyScore: the floor is left out.
KeywordOnlyScoreNoFloor(position) == KeywordBase - (position * KeywordStep)

\* max(0.4, 0.5 - (keyword_results.index(doc_id) * 0.02))
KeywordOnlyScore(position) ==
    Max(KeywordFloor, KeywordBase - (position * KeywordStep))

\* Store._score_boosting_merge
ScoreBoostingMerge(vector_results, keyword_results) ==
    LET vector_ids == [i \in 1..Len(vector_results) |-> vector_results[i].id]
        vector_keys == KeysInOrder(vector_ids, {})
        in_vector == {vector_ids[i] : i \in 1..Len(vector_ids)}
        \* a later entry of an id overwrites the earlier one
        last(id) ==
            vector_results[CHOOSE i \in 1..Len(vector_ids) :
                vector_ids[i] = id /\ \A j \in (i + 1)..Len(vector_ids) : vector_ids[j] # id]
        keyword_set == {keyword_results[i] : i \in 1..Len(keyword_results)}
        keys == vector_keys \o KeysInOrder(keyword_results, in_vector)
        final_scores ==
            [id \in in_vector \cup keyword_set |->
                IF id \in in_vector
                THEN (IF id \in keyword_set THEN Boosted(last(id).score)
                      ELSE last(id).score)
                ELSE KeywordOnlyScore(IndexOf(keyword_results, id))]
        meta_lookup ==
            [id \in in_vector \cup keyword_set |->
                IF id \in in_vector THEN last(id).meta
                ELSE IF \E i \in 1..Len(ids) : ids[i] = id
                     THEN metadata[IndexOf(ids, id) + 1]
                ELSE EmptyDict]
        sorted_ids == SortedDesc(keys, final_scores)
    IN  [i \in 1..Len(sorted_ids) |->
            [id |-> sorted_ids[i], score |-> final_scores[sorted_ids[i]],
             meta |-> meta_lookup[sorted_ids[i]]]]

\* The cosine scores of the candidates: -0.5, 0.35, 0.8, 0.9 and 1.0.
HitScores == {0 - 500, 350, 800, 900, Milli}

\* The vector candidate lists: at most MaxHits entries of two ids, an id
\* possibly twice, in non-increasing order of score as search returns them.
VectorResults ==
    UNION {{r \in [1..n -> [id : {"a", "b"}, score : HitScores, meta : {EmptyDict}]] :
               \A i \in 1..(n - 1) : r[i].score >= r[i + 1].score} :
           n \in 0..MaxHits}

\* The ids of the keyword results, in one order of list(set).
KeywordOrder == <<"a", "k1", "k2", "b", "k3", "k4", "k5", "k6", "k7">>

\* The keyword result lists: the runs of KeywordOrder, taken round, of at
\* most MaxKw ids.
KeywordResults ==
    {[i \in 1..n |-> KeywordOrder[((start + i - 2) % Len(KeywordOrder)) + 1]] :
        start \in 1..Len(KeywordOrder), n \in 0..Min(MaxKw, Len(KeywordOrder))}

\* A call of _score_boosting_merge on the two candidate lists.
Merge ==
    /\ Opened
    /\ merged' = ScoreBoostingMerge(vector_hits, keyword_hits)
    /\ call' = [op |-> "merge", q |-> << >>, k |-> 0]
    /\ raised' = ""
    /\ UNCHANGED <<dbVars, storage, has_numpy, scores, top_indices, ret,
                   runVars, kwVars, vector_hits, keyword_hits,
                   found, rag_results,
                   idxVars>>

\* The fusion step is followed for every pair of candidate lists.
InitMerge ==
    /\ ids = << >>
    /\ vectors = << >>
    /\ metadata = << >>
    /\ dirty = FALSE
    /\ numpy_vectors = NoArray
    /\ storage = NoFile
    /\ has_numpy \in BOOLEAN
    /\ call = NoCall
    /\ scores = << >>
    /\ top_indices = << >>
    /\ ret = << >>
    /\ raised = ""
    /\ pc = "idle"
    /\ pending = NoneVal
    /\ written = 0
    /\ completed = << >>
    /\ crashes = 0
    /\ index = << >>
    /\ kw_dirty = FALSE
    /\ added = {}
    /\ kw_storage = NoFile
    /\ found = << >>
    /\ rag_results = << >>
    /\ hashes = << >>
    /\ hashes_file = NoFile
    /\ stats = NoStats
    /\ consecutive_failures = 0
    /\ run = Idle
    /\ tree = NoTree
    /\ trail = NoTrail
    /\ vector_hits \in VectorResults
    /\ keyword_hits \in KeywordResults
    /\ merged = << >>

NextMerge ==
    \/ \E a \in RunArgs : Add(a.id, a.vector, a.meta)
    \/ Merge

SpecMerge == InitMerge /\ [][NextMerge]_vars

\* ------------------------------------------------------------------ Store.search

\* merged[:k], k >= 0
FirstK(list, k) == SubSeq(list, 1, Min(k, Len(list)))

\* return merged[:k]
Truncate(list, k) == FirstK(list, k)

\* A call that raises returns nothing.
NoHits ==
    /\ vector_hits' = << >>
    /\ keyword_hits' = << >>
    /\ merged' = << >>
    /\ found' = << >>

\* What Store.search computes from one outcome of the vector search and one
\* order of the keyword results.
Fused(o, k, keyword_results) ==
    LET all == ScoreBoostingMerge(o.ret, keyword_results) IN
    [search |-> o, vector_hits |-> o.ret, keyword_hits |-> keyword_results,
     merged |-> all, found |-> Truncate(all, k)]

\* The body of Store.search with the query vector q: vector_db.search with
\* k * 3, keyword_db.search, the merge and the cut to k. An exception of the
\* vector search escapes.
StoreSearchOutcomes(query_text, k, q) ==
    UNION {IF o.raised # ""
           THEN {[search |-> o, vector_hits |-> << >>, keyword_hits |-> << >>,
                  merged |-> << >>, found |-> << >>]}
           ELSE {Fused(o, k, keyword_results) :
                   keyword_results \in ListsOf(KwSearchSet(index, query_text))} :
           o \in SearchOutcomes(q, k * 3)}

\* Store.search, the embedder returning embedded or raising when ok is false.
StoreSearch(query_text, k, query_vector, embedded, ok) ==
    LET q == IF query_vector.given THEN query_vector.val ELSE embedded IN
    /\ Opened
    /\ call' = [op |-> "store_search", query |-> query_text, k |-> k, q |-> q]
    /\ IF ~query_vector.given /\ ~ok
       THEN /\ raised' = "EmbeddingError"
            /\ scores' = << >>
            /\ top_indices' = << >>
            /\ ret' = << >>
            /\ NoHits
            /\ UNCHANGED numpy_vectors
       ELSE \E r \in StoreSearchOutcomes(query_text, k, q) :
                /\ scores' = r.search.scores
                /\ top_indices' = r.search.top_indices
                /\ ret' = r.search.ret
                /\ raised' = r.search.raised
                /\ numpy_vectors' = r.search.numpy_vectors
                /\ vector_hits' = r.vector_hits
                /\ keyword_hits' = r.keyword_hits
                /\ merged' = r.merged
                /\ found' = r.found
    /\ UNCHANGED <<ids, vectors, metadata, dirty, storage, has_numpy, runVars,
                   kwVars, rag_results, idxVars>>

NextHybrid ==
    \/ \E a \in AddFileArgs, embedded \in Vecs, ok \in BOOLEAN :
          AddFile(a.file_path, a.content, a.meta, a.vector, a.embed_text,
                  embedded, ok)
    \/ \E query \in QueryTexts : KeywordSearch(query)

SpecHybrid == Init /\ [][NextHybrid]_vars

\* The files that are searched: "Ab x" and "r", embedded by the provider.
SearchFiles ==
    {a \in AddFileArgs : TextLen(a.content) <= MAX_CHARS /\ ~a.vector.given}

\* "x r", "X" and "a": queries that match both files, one file and none.
SearchQueries == {q \in QueryTexts : Len(q) \in {1, 3}}

\* The precomputed query vectors: one of zero norm, two with a signal.
QueryVectors == {<<0, 0>>, <<1, 0>>, <<0, 1>>}

\* The embedding provider of the tests: a dimension per word, set when the
\* lowercased text contains the word (here the words x and r).
MockEmbedding(text) ==
    <<IF \E i \in 1..Len(text) : Lower(text[i].c) = "x" THEN 1 ELSE 0,
      IF \E i \in 1..Len(text) : Lower(text[i].c) = "r" THEN 1 ELSE 0>>

\* The files whose embedding text is followed: the paths f and LongPath,
\* each with "ab x", with 900 characters a, with 901 and with the 903 of
\* LongContent; the last also with an embed text or a vector given.
BudgetFiles ==
    {[file_path |-> file_path, content |-> content, vector |-> Omitted,
      embed_text |-> Omitted] :
        file_path \in {"f", LongPath},
        content \in {<<Run("a", 1), Run("b", 1), Run(" ", 1), Run("x", 1)>>,
                     <<Run("a", MAX_CHARS)>>, <<Run("a", MAX_CHARS), Run("x", 1)>>,
                     LongContent}}
    \cup
    {[file_path |-> file_path, content |-> LongContent, vector |-> a.vector,
      embed_text |-> a.embed_text] :
        file_path \in {"f", LongPath},
        a \in {[vector |-> Given(<<1, 0>>), embed_text |-> Omitted],
               [vector |-> Omitted, embed_text |-> Given(<<Run("a", 1), Run("b", 1)>>)]}}

NextBudget ==
    \/ \E a \in BudgetFiles, ok \in BOOLEAN :
          AddFile(a.file_path, a.content, NoneVal, a.vector, a.embed_text,
                  MockEmbedding(TextToEmbed(a.content,
                      Given(IF a.embed_text.given THEN a.embed_text.val
                            ELSE FileEmbedText(a.file_path, a.content)))), ok)
    \/ \E query \in QueryTexts : KeywordSearch(query)

SpecBudget == Init /\ [][NextBudget]_vars

NextSearch ==
    \/ \E a \in SearchFiles, ok \in BOOLEAN :
          AddFile(a.file_path, a.content, a.meta, a.vector, a.embed_text,
                  MockEmbedding(a.content), ok)
    \/ \E query \in SearchQueries, k \in 0..MaxK, v \in QueryVectors :
          StoreSearch(query, k, Given(v), v, TRUE)
    \/ \E query \in SearchQueries, k \in 0..MaxK, ok \in BOOLEAN :
          StoreSearch(query, k, Omitted, MockEmbedding(query), ok)

SpecSearch == Init /\ [][NextSearch]_vars

\* ------------------------------------------------------------------ lines

\* Two texts one after the other; runs of the same character at the seam
\* become one run.
Concat(a, b) ==
    IF Len(a) = 0 THEN b
    ELSE IF Len(b) = 0 THEN a
    ELSE IF a[Len(a)].c = b[1].c
         THEN SubSeq(a, 1, Len(a) - 1) \o <<Run(b[1].c, a[Len(a)].n + b[1].n)>> \o Tail(b)
    ELSE a \o b

\* A text with no two neighbouring runs of the same character.
RECURSIVE Normal(_)
Normal(text) ==
    IF Len(text) = 0 THEN << >>
    ELSE IF Head(text).n = 0 THEN Normal(Tail(text))
    ELSE Concat(<<Head(text)>>, Normal(Tail(text)))

\* text.lower()
LowerText(text) == Normal([i \in 1..Len(text) |-> Run(Lower(text[i].c), text[i].n)])

\* content.splitlines() from run i on, cur being the line under way: a line
\* ends at each "\n", and the text after the last one is a line if it is
\* not empty.
RECURSIVE LinesFrom(_, _, _)
LinesFrom(text, i, cur) ==
    IF i > Len(text) THEN (IF Len(cur) = 0 THEN << >> ELSE <<cur>>)
    ELSE IF text[i].c = "\n"
         THEN <<cur>> \o [j \in 1..(text[i].n - 1) |-> << >>] \o
              LinesFrom(text, i + 1, << >>)
    ELSE LinesFrom(text, i + 1, Concat(cur, <<text[i]>>))

\* content.splitlines()
SplitLines(text) == LinesFrom(text, 1, << >>)

\* sep.join(lines)
RECURSIVE Join(_, _)
Join(sep, lines) ==
    IF Len(lines) = 0 THEN << >>
    ELSE IF Len(lines) = 1 THEN lines[1]
    ELSE Concat(Concat(lines[1], sep), Join(sep, Tail(lines)))

\* re.findall(r"\w+", text) from run i on: the maximal runs of word
\* characters in their order, as written.
RECURSIVE WordsFrom(_, _, _)
WordsFrom(text, i, cur) ==
    IF i > Len(text) THEN (IF Len(cur) = 0 THEN << >> ELSE <<cur>>)
    ELSE IF text[i].c \in WordChars
         THEN WordsFrom(text, i + 1, Concat(cur, <<text[i]>>))
    ELSE (IF Len(cur) = 0 THEN << >> ELSE <<cur>>) \o WordsFrom(text, i + 1, << >>)

\* re.findall(r"\w+", query)
FindAllWords(text) == WordsFrom(text, 1, << >>)

\* `term in text` for a term that is not empty: the runs of the term lie in
\* the text one after the other, the first and the last as part of a run.
Contains(text, term) ==
    LET t == Normal(text)
        w == Normal(term)
        m == Len(w)
    IN  \E j \in 1..(Len(t) - m + 1) :
            \A i \in 1..m :
                /\ t[j + i - 1].c = w[i].c
                /\ IF i = 1 \/ i = m THEN t[j + i - 1].n >= w[i].n
                   ELSE t[j + i - 1].n = w[i].n

\* ------------------------------------------------------------------ windows

\* A list built by a comprehension: its entries are computed once, when the
\* list is built.
List(f) == SubSeq(f, 1, Len(f))

\* window_size of _find_all_windows, in lines.
WindowSize == 3

\* lines[i : i + size] for the 1-based position i.
LinesAt(lines, i, size) == SubSeq(lines, i, Min(i + size - 1, Len(lines)))

\* sum(1 for term in query_terms if term in text), text being the lines of
\* the window joined by blanks and lowercased.
MatchCount(window, terms) ==
    LET text == LowerText(Join(<<Run(" ", 1)>>, window)) IN
    Cardinality({j \in 1..Len(terms) : Contains(text, terms[j])})

\* A faulty variant of Overlaps: no window is dropped.
OverlapsNever(start, used) == FALSE

\* any(abs(line_idx - used_start) < window_size for used_start in used_ranges)
Overlaps(start, used) ==
    \E u \in used : (IF start >= u THEN start - u ELSE u - start) < WindowSize

\* The second loop of _find_all_windows: a window is kept unless it starts
\* less than window_size lines from a window kept before it.
RECURSIVE Deduplicated(_, _)
Deduplicated(starts, used) ==
    IF Len(starts) = 0 THEN << >>
    ELSE IF Overlaps(Head(starts), used) THEN Deduplicated(Tail(starts), used)
    ELSE <<Head(starts)>> \o Deduplicated(Tail(starts), used \cup {Head(starts)})

\* A faulty variant of WindowOf: the snippet loses the first line of the window.
WindowOfShifted(lines, i, score) ==
    [line |-> i, snippet |-> Join(<<Run("\n", 1)>>, Tail(LinesAt(lines, i, WindowSize))),
     score |-> score]

\* (i + 1, "\n".join(window), score) for the window at the 1-based line i.
WindowOf(lines, i, score) ==
    [line |-> i, snippet |-> Join(<<Run("\n", 1)>>, LinesAt(lines, i, WindowSize)),
     score |-> score]

\* A faulty variant of FindAllWindows: no window is found.
FindAllWindowsNone(content, query_terms) == << >>

\* VectorIndex._find_all_windows
FindAllWindows(content, query_terms) ==
    LET lines == SplitLines(content)
        terms == List([j \in 1..Len(query_terms) |-> LowerText(query_terms[j])])
        score == List([i \in 1..Len(lines) |->
                          MatchCount(LinesAt(lines, i, WindowSize), terms)])
        windows == SelectSeq([i \in 1..Len(lines) |-> i], LAMBDA i : score[i] > 0)
        kept == Deduplicated(SortedDesc(windows, score), {})
    IN  [n \in 1..Len(kept) |-> WindowOf(lines, kept[n], score[kept[n]])]

\* ------------------------------------------------------------------ chunks

\* WINDOW_SIZE of _find_best_chunks_for_file, in lines.
WINDOW_SIZE == 15

\* STRIDE of _find_best_chunks_for_file, in lines.
STRIDE == 15

\* A file of at most this many lines is not chunked.
SmallFileLines == 10

\* A chunk has at least this many lines.
MinChunkLines == 3

\* A meaningful line is longer than this many characters.
MeaningfulChars == 15

\* The snippet of a small file is cut to this many characters.
SnippetChars == 200

\* The characters str.strip removes, of those that occur in the texts.
Blank == {" ", "\t", "\n"}

\* line.strip()
RECURSIVE Strip(_)
Strip(line) ==
    IF Len(line) = 0 THEN << >>
    ELSE IF line[1].c \in Blank THEN Strip(Tail(line))
    ELSE IF line[Len(line)].c \in Blank THEN Strip(SubSeq(line, 1, Len(line) - 1))
    ELSE line

\* The branch for a small file: the first line that, stripped, is longer
\* than 15 characters, cut to 200 characters, with the score 0.0.
FirstMeaningfulLine(lines) ==
    LET long == {i \in 1..Len(lines) : TextLen(Strip(lines[i])) > MeaningfulChars} IN
    IF long = {} THEN << >>
    ELSE LET i == CHOOSE i \in long : \A j \in long : i <= j IN
         <<[line |-> i, snippet |-> TakeChars(Strip(lines[i]), SnippetChars),
            score |-> 0]>>

\* str(n) for n >= 0
RECURSIVE DecimalText(_)
DecimalText(n) ==
    IF n < 10 THEN <<Run(ToString(n), 1)>>
    ELSE Concat(DecimalText(n \div 10), <<Run(ToString(n % 10), 1)>>)

\* f"{file_path}#chunk_{i}"
ChunkId(file_path, i) == file_path \o "#chunk_" \o ToString(i)

\* range(0, len(lines), STRIDE) up to the break: the 0-based first lines of
\* the windows that have at least three lines.
ChunkStarts(lines) ==
    LET count == Cardinality({j \in 0..Len(lines) :
                     STRIDE * j < Len(lines) /\ Len(lines) - STRIDE * j >= MinChunkLines})
    IN  [n \in 1..count |-> STRIDE * (n - 1)]

\* "\n".join(lines[i:i + WINDOW_SIZE])
ChunkText(lines, i) == Join(<<Run("\n", 1)>>, LinesAt(lines, i + 1, WINDOW_SIZE))

\* f"File: {file_path} (lines {i+1}-{min(i+WINDOW_SIZE, len(lines))})\n\n{chunk_text}"
ChunkEmbedText(file_path, lines, i) ==
    FilePrefix \o PathText(file_path) \o
    <<Run(" ", 1), Run("(", 1), Run("l", 1), Run("i", 1), Run("n", 1), Run("e", 1),
      Run("s", 1), Run(" ", 1)>> \o
    DecimalText(i + 1) \o <<Run("-", 1)>> \o
    DecimalText(Min(i + WINDOW_SIZE, Len(lines))) \o
    <<Run(")", 1), Run("\n", 2)>> \o ChunkText(lines, i)

\* chunk_meta
ChunkMeta(file_path, lines, i) ==
    [file_path |-> file_path, start_line |-> i + 1,
     end_line |-> Min(i + WINDOW_SIZE, Len(lines)),
     chunk_text |-> ChunkText(lines, i), is_chunk |-> TRUE]

\* The similarity of the scoring loop: 0.0 when either vector has no length.
ChunkScore(q, v) ==
    IF NormSq(q) = 0 \/ NormSq(v) = 0 THEN 0
    ELSE Quotient(Dot(q, v), NormSq(q), NormSq(v))

\* ------------------------------------------------------------------ VectorIndex.search

\* The state a call works on: the vector store in memory and on disk, the
\* number of calls of the embedder so far, the exception under way, the
\* locals of search, the files it localized and the chunk ids it embedded.
Enter(o, n) ==
    [ids |-> ids, vectors |-> vectors, metadata |-> metadata, storage |-> storage,
     dirty |-> dirty, numpy_vectors |-> o.numpy_vectors, calls |-> n,
     raised |-> o.raised, rag_results |-> << >>, seen_files |-> {},
     files_processed |-> 0, localized |-> << >>, embedded |-> << >>,
     stopped |-> FALSE]

\* vector_db.add(id, vector, meta) inside a call
VectorAdd(st, id, vector, meta) ==
    [st EXCEPT !.ids = Append(@, id),
               !.vectors = Append(@, vector),
               !.metadata = Append(@, OrEmpty(meta)),
               !.dirty = TRUE,
               !.storage = AppendLine(@, JsonDumps(Record(id, vector, meta))),
               !.numpy_vectors = NoArray]

\* The loop of persist over the records of st from position i on.
RECURSIVE RewriteFrom(_, _, _)
RewriteFrom(file, st, i) ==
    IF i > Len(st.ids) THEN file
    ELSE RewriteFrom(AppendLine(file, JsonDumps([id |-> st.ids[i],
                                                 vector |-> st.vectors[i],
                                                 meta |-> st.metadata[i]])),
                     st, i + 1)

\* vector_db.persist() inside a call
VectorPersist(st) ==
    IF st.dirty
    THEN [st EXCEPT !.storage = RewriteFrom(Truncated, st, 1), !.dirty = FALSE]
    ELSE st

\* The loop over chunks_to_create: each chunk is embedded and added; the
\* embedder raises in its call number fail_at.
RECURSIVE CreateChunks(_, _, _, _, _)
CreateChunks(st, file_path, lines, to_create, fail_at) ==
    IF Len(to_create) = 0 THEN st
    ELSE IF st.calls + 1 = fail_at
         THEN [st EXCEPT !.calls = @ + 1, !.raised = "EmbeddingError"]
    ELSE LET i == Head(to_create) IN
         CreateChunks(
             VectorAdd([st EXCEPT !.calls = @ + 1,
                                  !.embedded = Append(@, ChunkId(file_path, i))],
                       ChunkId(file_path, i),
                       MockEmbedding(ChunkEmbedText(file_path, lines, i)),
                       ChunkMeta(file_path, lines, i)),
             file_path, lines, Tail(to_create), fail_at)

\* A faulty variant of ChunkStored: the index is not asked, every chunk is
\* created.
ChunkStoredNever(st, chunk_id) == FALSE

\* self.db.vector_db.ids.index(chunk_id) finds the chunk id.
ChunkStored(st, chunk_id) == \E j \in 1..Len(st.ids) : st.ids[j] = chunk_id

\* VectorIndex._find_best_chunks_for_file with the query vector q: the
\* state it leaves and the list it returns.
FindBestChunksForFile(st, content, file_path, q, fail_at) ==
    LET lines == SplitLines(content)
        stored(i) == ChunkStored(st, ChunkId(file_path, i))
        starts == ChunkStarts(lines)
        found_chunks == SelectSeq(starts, stored)
        to_create == SelectSeq(starts, LAMBDA i : ~stored(i))
        created == CreateChunks(st, file_path, lines, to_create, fail_at)
        after == IF Len(to_create) > 0 THEN VectorPersist(created) ELSE created
        chunks_to_score ==
            [n \in 1..Len(found_chunks) |->
                [line |-> found_chunks[n] + 1,
                 snippet |-> ChunkText(lines, found_chunks[n]),
                 vector |-> st.vectors[IndexOf(st.ids, ChunkId(file_path, found_chunks[n])) + 1]]]
            \o
            [n \in 1..Len(to_create) |->
                [line |-> to_create[n] + 1,
                 snippet |-> ChunkText(lines, to_create[n]),
                 vector |-> MockEmbedding(ChunkEmbedText(file_path, lines, to_create[n]))]]
        similarity == List([n \in 1..Len(chunks_to_score) |->
                               ChunkScore(q, chunks_to_score[n].vector)])
        order == SortedDesc([n \in 1..Len(chunks_to_score) |-> n], similarity)
        scored_chunks ==
            [n \in 1..Len(order) |->
                [line |-> chunks_to_score[order[n]].line,
                 snippet |-> chunks_to_score[order[n]].snippet,
                 score |-> similarity[order[n]]]]
    IN  IF Len(lines) <= SmallFileLines
        THEN [st |-> st, best |-> FirstMeaningfulLine(lines)]
        ELSE IF created.raised # ""
        THEN [st |-> created, best |-> << >>]
        ELSE [st |-> after, best |-> FirstK(scored_chunks, 1)]

\* The start offsets of the chunks of files of up to MaxChunks chunks.
ChunkOffsets == {n * STRIDE : n \in 0..(MaxChunks - 1)}

\* The chunk ids that occur.
ChunkIds == {ChunkId(file_path, i) : file_path \in DocIds, i \in ChunkOffsets}

\* '#chunk_' in doc_id, for the ids that occur
HasChunkMarker(doc_id) == doc_id \in ChunkIds

\* meta.get(key, default)
MetaGet(meta, key, default) == IF key \in DOMAIN meta THEN meta[key] ELSE default

\* A faulty variant of Stop: the loop goes through all candidates.
StopNever(files_processed, k) == FALSE

\* if files_processed >= k: break
Stop(files_processed, k) == files_processed >= k

\* The results for the keyword windows of a file. The scores of results
\* count in halves of a thousandth, so that the mean of two scores is exact.
WindowResults(file_path, file_score, keyword_windows) ==
    [n \in 1..Len(keyword_windows) |->
        [file |-> file_path, score |-> 2 * file_score,
         line |-> keyword_windows[n].line, snippet |-> keyword_windows[n].snippet,
         full_match |-> TRUE]]

\* The results for the best chunks of a file: (file_score + chunk_score) / 2
ChunkResults(file_path, file_score, best_chunks) ==
    [n \in 1..Len(best_chunks) |->
        [file |-> file_path, score |-> file_score + best_chunks[n].score,
         line |-> best_chunks[n].line, snippet |-> best_chunks[n].snippet,
         full_match |-> FALSE]]

\* One pass of the loop of search over the candidate all_results[n].
Localize(candidate, st, query_terms, k, q, fail_at) ==
    LET file_path == MetaGet(candidate.meta, "file_path", candidate.id)
        content == MetaGet(candidate.meta, "content", << >>)
        seen == [st EXCEPT !.seen_files = @ \cup {file_path}]
        keyword_windows == FindAllWindows(content, query_terms)
        chunks == FindBestChunksForFile(seen, content, file_path, q, fail_at)
        results == IF Len(keyword_windows) > 0
                   THEN WindowResults(file_path, candidate.score, keyword_windows)
                   ELSE ChunkResults(file_path, candidate.score, chunks.best)
        from == IF Len(keyword_windows) > 0 THEN seen ELSE chunks.st
    IN  IF HasChunkMarker(candidate.id) THEN st
        ELSE IF file_path \in st.seen_files THEN st
        ELSE IF TextLen(content) = 0 THEN seen
        ELSE IF from.raised # ""
             THEN [from EXCEPT !.localized = Append(@, file_path)]
        ELSE [from EXCEPT !.rag_results = @ \o results,
                          !.localized = Append(@, file_path),
                          !.files_processed = @ + 1,
                          !.stopped = Stop(st.files_processed + 1, k)]

\* The loop of search from the candidate n on, up to the break or the
\* exception.
RECURSIVE SearchLoop(_, _, _, _, _, _, _)
SearchLoop(all_results, n, st, query_terms, k, q, fail_at) ==
    IF n > Len(all_results) \/ st.stopped \/ st.raised # "" THEN st
    ELSE SearchLoop(all_results, n + 1,
                    Localize(all_results[n], st, query_terms, k, q, fail_at),
                    query_terms, k, q, fail_at)

\* rag_results.sort(key=lambda x: x["score"], reverse=True)
SortByScore(results) ==
    LET order == SortedDesc([n \in 1..Len(results) |-> n],
                            List([n \in 1..Len(results) |-> results[n].score]))
    IN  [n \in 1..Len(order) |-> results[order[n]]]

\* VectorIndex.search: the query is embedded unless its vector is passed,
\* Store.search gets k * 10, and each of the first k files is localized. The
\* embedder raises in its call number fail_at of this search (0: in none).
\* An exception leaves the chunks that were added before it.
RagSearch(query, k, query_vector, fail_at) ==
    LET first == IF query_vector.given THEN 0 ELSE 1
        q == IF query_vector.given THEN query_vector.val ELSE MockEmbedding(query)
    IN
    /\ Opened
    /\ IF first = 1 /\ fail_at = 1
       THEN /\ raised' = "EmbeddingError"
            /\ call' = [op |-> "rag_search", query |-> query, k |-> k, q |-> << >>,
                        localized |-> << >>, embedded |-> << >>]
            /\ scores' = << >>
            /\ top_indices' = << >>
            /\ ret' = << >>
            /\ NoHits
            /\ rag_results' = << >>
            /\ UNCHANGED <<dbVars, storage>>
       ELSE \E r \in StoreSearchOutcomes(query, k * 10, q) :
                \E st \in {SearchLoop(r.found, 1, Enter(r.search, first),
                                       FindAllWords(query), k, q, fail_at)} :
                    /\ fail_at <= st.calls
                    /\ raised' = st.raised
                    /\ call' = [op |-> "rag_search", query |-> query, k |-> k,
                                q |-> q, localized |-> st.localized,
                                embedded |-> st.embedded]
                    /\ scores' = r.search.scores
                    /\ top_indices' = r.search.top_indices
                    /\ ret' = r.search.ret
                    /\ vector_hits' = r.vector_hits
                    /\ keyword_hits' = r.keyword_hits
                    /\ merged' = r.merged
                    /\ found' = r.found
                    /\ rag_results' = IF st.raised = "" THEN SortByScore(st.rag_results)
                                      ELSE << >>
                    /\ ids' = st.ids
                    /\ vectors' = st.vectors
                    /\ metadata' = st.metadata
                    /\ dirty' = st.dirty
                    /\ storage' = st.storage
                    /\ numpy_vectors' = st.numpy_vectors
    /\ UNCHANGED <<has_numpy, runVars, kwVars, idxVars>>

\* "\n"
Newline == <<Run("\n", 1)>>

\* The files that are localized: f with the three lines "a", "X b" and
\* sixteen a followed by two blanks; g with eleven lines, the first and the
\* last of them "r" and the others empty; f again with
\* the one line "x"; g with no content.
RagFiles ==
    {[file_path |-> "f",
      content |-> Join(Newline, <<<<Run("a", 1)>>,
                                  <<Run("X", 1), Run(" ", 1), Run("b", 1)>>,
                                  <<Run("a", MeaningfulChars + 1), Run(" ", 2)>>>>)],
     [file_path |-> "g",
      content |-> <<Run("r", 1), Run("\n", SmallFileLines), Run("r", 1)>>],
     [file_path |-> "f", content |-> <<Run("x", 1)>>],
     [file_path |-> "g", content |-> << >>]}

\* "X", "r" and "b": the queries of the localized search.
RagQueries == {<<Run("X", 1)>>, <<Run("r", 1)>>, <<Run("b", 1)>>}

\* The query vector is left to the embedder or passed.
RagQueryVectors == {Omitted, Given(<<1, 0>>)}

\* The caller is done with what the last search returned.
TakeResults ==
    /\ call.op = "rag_search"
    /\ call' = NoCall
    /\ raised' = ""
    /\ scores' = << >>
    /\ top_indices' = << >>
    /\ ret' = << >>
    /\ NoHits
    /\ rag_results' = << >>
    /\ UNCHANGED <<dbVars, storage, has_numpy, runVars, kwVars, idxVars>>

\* Files are indexed and searched by one caller: a search starts when the
\* results of the search before it have been taken.
NextRag ==
    \/ \E a \in RagFiles, ok \in BOOLEAN :
          AddFile(a.file_path, a.content, NoneVal, Omitted, Omitted,
                  MockEmbedding(a.content), ok)
    \/ \E query \in RagQueries, k \in 0..MaxK, v \in RagQueryVectors,
          fail_at \in 0..MaxCalls :
          call.op # "rag_search" /\ RagSearch(query, k, v, fail_at)
    \/ TakeResults

SpecRag == Init /\ [][NextRag]_vars

\* ------------------------------------------------------------------ keyword windows

\* The lines of the files whose windows are followed: "", "r" and "x".
WindowLines == {<< >>, <<Run("r", 1)>>, <<Run("x", 1)>>}

\* The contents of MaxWindowLines such lines, joined by "\n".
WindowFiles == {Join(Newline, l) : l \in [1..MaxWindowLines -> WindowLines]}

\* The queries "r" and "X r".
WindowQueries == {<<Run("r", 1)>>, <<Run("X", 1), Run(" ", 1), Run("r", 1)>>}

\* One file f is indexed and searched.
NextWindows ==
    \/ \E content \in WindowFiles, ok \in BOOLEAN :
          /\ Len(ids) = 0
          /\ AddFileCall("f", content, NoneVal, Omitted, Omitted,
                         MockEmbedding(content), ok)
    \/ \E query \in WindowQueries, k \in 1..MaxK, v \in RagQueryVectors,
          fail_at \in 0..MaxCalls :
          call.op # "rag_search" /\ RagSearch(query, k, v, fail_at)
    \/ TakeResults

SpecWindows == Init /\ [][NextWindows]_vars

\* ------------------------------------------------------------------ persist

\* The keyword file: one JSON document, token -> list of ids.
KwFile(data) == [exists |-> TRUE, lines |-> <<[text |-> data, nl |-> FALSE]>>]

\* {k: list(v) for k, v in index.items()}: every set as a list, in any order.
KwDumps(idx) ==
    {data \in [DOMAIN idx -> UNION {ListsOf(idx[t]) : t \in DOMAIN idx}] :
        \A t \in DOMAIN idx : data[t] \in ListsOf(idx[t])}

\* KeywordDB.__init__ on a storage path: an empty index, then _load if the
\* file exists: json.load and a set per list. A file without a document
\* makes json.load raise.
KwLoad(file) ==
    IF ~file.exists THEN [index |-> << >>, error |-> ""]
    ELSE IF Len(file.lines) = 0 THEN [index |-> << >>, error |-> "JSONDecodeError"]
    ELSE LET data == file.lines[1].text IN
         [index |-> [t \in DOMAIN data |-> {data[t][i] : i \in 1..Len(data[t])}],
          error |-> ""]

\* A faulty variant of KwWritten: the file is rewritten whether or not an
\* add happened.
KwWrittenAlways(idx, flag, file) == {KwFile(data) : data \in KwDumps(idx)}

\* The files KeywordDB.persist can leave: the file as it is when nothing is
\* dirty, the dump of the index otherwise.
KwWritten(idx, flag, file) ==
    IF ~flag THEN {file} ELSE {KwFile(data) : data \in KwDumps(idx)}

\* KeywordDB.persist
KeywordPersist ==
    /\ call.op # "kw_open" \/ raised = ""
    /\ kw_storage' \in KwWritten(index, kw_dirty, kw_storage)
    /\ kw_dirty' = FALSE
    /\ call' = [op |-> "kw_persist", q |-> << >>, k |-> 0]
    /\ scores' = << >>
    /\ top_indices' = << >>
    /\ ret' = << >>
    /\ raised' = ""
    /\ UNCHANGED <<dbVars, storage, has_numpy, index, added, runVars, mergeVars, idxVars>>

\* The process ends and a new KeywordDB is constructed on the same path.
KeywordReopen ==
    LET got == KwLoad(kw_storage) IN
    /\ index' = got.index
    /\ kw_dirty' = FALSE
    /\ call' = [op |-> "kw_open", q |-> << >>, k |-> 0]
    /\ scores' = << >>
    /\ top_indices' = << >>
    /\ ret' = << >>
    /\ raised' = got.error
    /\ UNCHANGED <<dbVars, storage, has_numpy, added, kw_storage, runVars, mergeVars, idxVars>>

\* Files are added to the store, and each of its two indexes is persisted
\* and opened again.
NextPersist ==
    \/ \E a \in SearchFiles, ok \in BOOLEAN :
          /\ call.op # "kw_open" \/ raised = ""
          /\ AddFile(a.file_path, a.content, a.meta, a.vector, a.embed_text,
                     MockEmbedding(a.content), ok)
    \/ Persist
    \/ KeywordPersist
    \/ Reopen
    \/ KeywordReopen

SpecPersist == Init /\ [][NextPersist]_vars

\* ------------------------------------------------------------------ chunks over time

\* Every id of the store has one record.
NoneTwice == Cardinality({ids[i] : i \in 1..Len(ids)}) = Len(ids)

\* The ids of the store.
IndexedIds == {ids[i] : i \in 1..Len(ids)}

\* The file-level records of the store.
FileRecords == {i \in 1..Len(ids) : ~HasChunkMarker(ids[i])}

\* Ten blocks of fifteen lines, the first line of each "x" and the others
\* empty, and a last line "r": 151 lines in ten chunks, the last line in none.
LongFile ==
    [n \in 1..(2 * (MaxChunks - 1) + 1) |->
        IF n = 2 * (MaxChunks - 1) + 1 THEN Run("r", 1)
        ELSE IF n % 2 = 1 THEN Run("x", 1) ELSE Run("\n", STRIDE)]

\* The files whose chunks are followed: g with eleven lines, the first and
\* the last "r"; g with eleven other lines, the first and the last "x"; f
\* with the 151 lines of LongFile; and h with no content.
ChunkFiles ==
    {[file_path |-> "g",
      content |-> <<Run("r", 1), Run("\n", SmallFileLines), Run("r", 1)>>],
     [file_path |-> "g",
      content |-> <<Run("x", 1), Run("\n", SmallFileLines), Run("x", 1)>>],
     [file_path |-> "f", content |-> List(LongFile)],
     [file_path |-> "h", content |-> << >>]}

\* "b" and "r": a query no line contains, and one that lines of g contain.
ChunkQueries == {<<Run("b", 1)>>, <<Run("r", 1)>>}

\* Store.persist: vector_db.persist() and keyword_db.persist()
StorePersist ==
    /\ Opened
    /\ call.op # "rag_search"
    /\ storage' = IF dirty THEN WriteFrom(Truncated, 1) ELSE storage
    /\ dirty' = FALSE
    /\ kw_storage' \in KwWritten(index, kw_dirty, kw_storage)
    /\ kw_dirty' = FALSE
    /\ call' = [op |-> "persist", q |-> << >>, k |-> 0]
    /\ raised' = ""
    /\ UNCHANGED <<ids, vectors, metadata, numpy_vectors, has_numpy, searchVars, index, added,
                   runVars, mergeVars, idxVars>>

\* The process ends and a new VectorIndex is constructed on the same
\* directory: both indexes are loaded from their files.
OpenStore ==
    LET got == Load(storage) IN
    /\ call.op # "rag_search"
    /\ ids' = got.ids
    /\ vectors' = got.vectors
    /\ metadata' = got.metadata
    /\ dirty' = FALSE
    /\ numpy_vectors' = IF has_numpy /\ got.error = "" /\ Len(got.vectors) > 0
                        THEN Array(got.vectors) ELSE NoArray
    /\ index' = KwLoad(kw_storage).index
    /\ kw_dirty' = FALSE
    /\ call' = [op |-> "open", q |-> << >>, k |-> 0]
    /\ raised' = got.error
    /\ UNCHANGED <<storage, has_numpy, searchVars, added, kw_storage, runVars, mergeVars,
                   idxVars>>

\* Files are indexed, also again under the same path, and searched, and
\* the store is persisted and opened again. The long file is indexed alone
\* and by a process without numpy: with numpy the equal scores of its ten
\* chunks come out in any of their orders. The file h is indexed first.
NextChunks ==
    \/ \E a \in ChunkFiles, ok \in BOOLEAN :
          /\ call.op # "rag_search"
          /\ Cardinality(FileRecords) < MaxFiles
          /\ IF a.file_path = "f" THEN ~has_numpy /\ Len(ids) = 0
             ELSE IF a.file_path = "h" THEN Len(ids) = 0
             ELSE \A i \in 1..Len(ids) : ids[i] # "f"
          /\ AddFileCall(a.file_path, a.content, NoneVal, Omitted, Omitted,
                         MockEmbedding(a.content), ok)
    \/ \E query \in ChunkQueries, k \in 1..MaxK, v \in RagQueryVectors,
          fail_at \in 0..MaxCalls :
          call.op # "rag_search" /\ RagSearch(query, k, v, fail_at)
    \/ TakeResults
    \/ StorePersist
    \/ OpenStore

SpecChunks == Init /\ [][NextChunks]_vars

\* The search that returned is made again, with the arguments it had, before
\* its results are taken.
SearchAgain ==
    \E v \in RagQueryVectors :
        /\ call.op = "rag_search"
        /\ raised = ""
        /\ call.q = (IF v.given THEN v.val ELSE MockEmbedding(call.query))
        /\ RagSearch(call.query, call.k, v, 0)

\* The files of ChunkFiles are indexed, one file per path, and searched; a
\* search is repeated.
NextRepeat ==
    \/ \E a \in ChunkFiles, ok \in BOOLEAN :
          /\ call.op # "rag_search"
          /\ a.file_path \notin IndexedIds
          /\ a.file_path = "f" => ~has_numpy /\ Len(ids) = 0
          /\ "f" \notin IndexedIds
          /\ AddFileCall(a.file_path, a.content, NoneVal, Omitted, Omitted,
                         MockEmbedding(a.content), ok)
    \/ \E query \in ChunkQueries, k \in 1..MaxK, v \in RagQueryVectors,
          fail_at \in 0..MaxCalls :
          call.op # "rag_search" /\ RagSearch(query, k, v, fail_at)
    \/ SearchAgain
    \/ TakeResults

SpecRepeat == Init /\ [][NextRepeat]_vars

\* ------------------------------------------------------------------ indexing twice

\* The id of the n-th file of the content "x".
FillerId(n) == "a" \o ToString(n)

\* The files a0, a1, ... of the content "x".
Fillers == {i \in 1..Len(ids) : \E n \in 0..(MaxFillers - 1) : ids[i] = FillerId(n)}

\* The queries of a store of many files: the word r, with a vector near
\* the files of the content "x", or embedded.
ReindexQueries == {<<Run("r", 1)>>}
ReindexVectors == {Given(<<3, 1>>), Omitted}

\* add_file applied a second time to the record i, with the content the
\* record has, by the caller of the last search: the lists that search
\* returned stay with the caller.
AddFileAgain(i, ok) ==
    /\ Opened
    /\ StoreAdd(ids[i], metadata[i].content,
                FileMeta(ids[i], metadata[i].content, NoneVal), Omitted,
                Given(FileEmbedText(ids[i], metadata[i].content)),
                MockEmbedding(FileEmbedText(ids[i], metadata[i].content)), ok)
    /\ UNCHANGED <<call, searchVars, mergeVars, has_numpy, runVars, idxVars>>

\* A store without numpy is filled with the files a0, a1, ... of the
\* content "x" and, after all or all but one of them, the file z of the
\* content "x r"; searches run on the store that holds z; after a search
\* that returned, the first or the last file is indexed a second time with
\* the content it has, and the search is made again.
NextReindex ==
    \/ \E ok \in BOOLEAN :
          /\ ~has_numpy
          /\ call.op # "rag_search"
          /\ Cardinality(Fillers) < MaxFillers
          /\ AddFileCall(FillerId(Cardinality(Fillers)), <<Run("x", 1)>>, NoneVal,
                         Omitted, Omitted, MockEmbedding(<<Run("x", 1)>>), ok)
    \/ \E ok \in BOOLEAN :
          /\ ~has_numpy
          /\ call.op # "rag_search"
          /\ "z" \notin IndexedIds
          /\ Cardinality(Fillers) >= MaxFillers - 1
          /\ AddFileCall("z", <<Run("x", 1), Run(" ", 1), Run("r", 1)>>, NoneVal,
                         Omitted, Omitted,
                         MockEmbedding(<<Run("x", 1), Run(" ", 1), Run("r", 1)>>), ok)
    \/ \E i \in {1, Len(ids)}, ok \in BOOLEAN :
          /\ call.op = "rag_search"
          /\ raised = ""
          /\ NoneTwice
          /\ AddFileAgain(i, ok)
    \/ \E query \in ReindexQueries, k \in 1..MaxK, v \in ReindexVectors,
          fail_at \in 0..MaxCalls :
          /\ call.op = "rag_search" => ~NoneTwice
          /\ "z" \in IndexedIds
          /\ RagSearch(query, k, v, fail_at)
    \/ TakeResults

SpecReindex == Init /\ [][NextReindex]_vars

\* ------------------------------------------------------------------ indexer

MAX_CONSECUTIVE_FAILURES == 3

\* The change map file: one JSON document, id -> fingerprint.
HashFile(map) == [exists |-> TRUE, lines |-> <<[text |-> map, nl |-> FALSE]>>]

\* _load_hashes / _load_indexed: the map of the file; the empty map when
\* there is no file or json.load raises.
LoadHashes(file) ==
    IF file.exists /\ Len(file.lines) > 0 THEN file.lines[1].text ELSE << >>

\* _compute_hash: the MD5 digest of the content, taken to be free of
\* collisions.
ComputeHash(content) == <<"md5", content>>

\* A file of the directory, a commit of the log, and what _parse_commit_lines
\* makes of fewer than five lines.
File(id, content) == [id |-> id, content |-> content, date |-> "", malformed |-> FALSE]

Commit(sha, date, content) ==
    [id |-> sha, content |-> content, date |-> date, malformed |-> FALSE]

Malformed == [id |-> "", content |-> << >>, date |-> "", malformed |-> TRUE]

\* `not content.strip()`
IsBlank(content) == Len(Strip(content)) = 0

\* A faulty variant of Unchanged: a known id is skipped whatever its content.
UnchangedById(kind, item, map) == item.id \in DOMAIN map

\* The skip test: the directory indexer compares the fingerprint of the
\* content, the commit indexer asks for the sha only.
Unchanged(kind, item, map) ==
    /\ item.id \in DOMAIN map
    /\ kind = "directory" => map[item.id] = ComputeHash(item.content)

\* What the change map holds for an item that was indexed.
Fingerprint(kind, item) ==
    IF kind = "directory" THEN ComputeHash(item.content) ELSE item.date

\* self.hashes[rel_path] = current_hash
Remember(map, id, fingerprint) ==
    [x \in (DOMAIN map) \cup {id} |-> IF x = id THEN fingerprint ELSE map[x]]

\* A faulty variant of Remembered: the map is updated before add_file is
\* called, so also when it raises.
RememberedAlways(map, kind, item, ok) == Remember(map, item.id, Fingerprint(kind, item))

\* The change map after the call of add_file: the assignment is reached
\* only when the call returned.
Remembered(map, kind, item, ok) ==
    IF ok THEN Remember(map, item.id, Fingerprint(kind, item)) ELSE map

\* The meta the commit indexer passes to add_file.
CommitMeta(item) == [sha |-> item.id, date |-> item.date, type |-> "commit"]

\* A faulty variant of Tripped: the breaker never opens.
TrippedNever(failures) == FALSE

\* `if consecutive_failures >= MAX_CONSECUTIVE_FAILURES: ... break`
Tripped(failures) == failures >= MAX_CONSECUTIVE_FAILURES

\* The sources: a directory with a blank file, a directory of four files,
\* a log whose first three records are malformed, and a log of four commits.
Trees ==
    {[kind |-> "directory",
      items |-> <<File("f", <<Run("x", 1)>>), File("g", <<Run(" ", 2)>>),
                  File("h", <<Run("r", 1)>>)>>],
     [kind |-> "directory",
      items |-> <<File("f", <<Run("x", 1)>>), File("g", <<Run("r", 1)>>),
                  File("h", <<Run("x", 1)>>), File("i", <<Run("b", 1)>>)>>],
     [kind |-> "repository",
      items |-> <<Malformed, Malformed, Malformed,
                  Commit("c", "d1", <<Run("x", 1)>>)>>],
     [kind |-> "repository",
      items |-> <<Commit("c", "d1", <<Run("x", 1)>>), Commit("e", "d2", <<Run("r", 1)>>),
                  Commit("k", "d3", <<Run("b", 1)>>), Commit("m", "d4", <<Run("x", 1)>>)>>]}

\* The contents a file is changed to between runs.
Edits == {<<Run("r", 1)>>, <<Run("x", 1)>>}

IndexCall == [op |-> "index", q |-> << >>, k |-> 0]

\* The indexer is constructed over a directory or a repository.
Mount ==
    /\ tree.kind = "none"
    /\ tree' \in Trees
    /\ UNCHANGED <<dbVars, storage, has_numpy, call, searchVars, raised, runVars, kwVars,
                   mergeVars, hashes, hashes_file, stats, consecutive_failures, run, trail>>

\* The first file of the directory is edited after a run without failure.
Modify ==
    /\ tree.kind = "directory"
    /\ run.at \in {"idle", "returned"}
    /\ trail.settled
    /\ \E content \in Edits :
          /\ tree.items[1].content # content
          /\ tree' = [tree EXCEPT !.items[1].content = content]
    /\ trail' = [trail EXCEPT !.events = << >>, !.settled = FALSE, !.redo = {}]
    /\ run' = Idle
    /\ UNCHANGED <<dbVars, storage, has_numpy, call, searchVars, raised, runVars, kwVars,
                   mergeVars, hashes, hashes_file, stats, consecutive_failures>>

\* Where the run goes after n of its items: to the next item, or to the
\* flush when the items are through or the breaker has opened.
After(n, stop) ==
    [at |-> IF stop \/ n >= Len(tree.items) THEN "persist_vector" ELSE "items", i |-> n]

\* index_directory / index_repository up to the loop: the counters are
\* zeroed and the items are listed.
StartRun ==
    /\ tree.kind # "none"
    /\ run.at \in {"idle", "returned"}
    /\ stats' = NoStats
    /\ consecutive_failures' = 0
    /\ run' = After(0, FALSE)
    /\ trail' = [trail EXCEPT !.events = << >>, !.storage_before = storage,
                              !.kw_before = kw_storage, !.hashes_before = hashes_file,
                              !.rerun = trail.settled, !.crashed = ""]
    /\ call' = IndexCall
    /\ raised' = ""
    /\ scores' = << >>
    /\ top_indices' = << >>
    /\ ret' = << >>
    /\ UNCHANGED <<dbVars, storage, has_numpy, runVars, kwVars, mergeVars, hashes,
                   hashes_file, tree>>

\* A faulty variant of MapFileAfterItem: the map is saved after every item.
MapFileSavedPerItem(file, map) == HashFile(map)

\* The change map file after a pass of the loop: the loop does not call
\* _save_hashes / _save_indexed, the file is as it was.
MapFileAfterItem(file, map) == file

\* One pass of the loop without a call of add_file: the event is recorded
\* and the counters are set.
Pass(event, counted, failures) ==
    /\ stats' = counted
    /\ consecutive_failures' = failures
    /\ run' = After(run.i + 1, FALSE)
    /\ trail' = [trail EXCEPT !.events = Append(@, event)]
    /\ raised' = ""
    /\ UNCHANGED <<dbVars, storage, kwVars, hashes>>

\* One pass of the loop over the next item, the embedder answering or
\* raising (ok): a malformed commit is counted as failed and passed over, a
\* blank file is passed over, an unchanged item is skipped; otherwise
\* add_file is called, and the item is remembered and counted as added when
\* it returns, counted as failed when it raises, the third failure in a row
\* ending the loop.
ProcessItem(ok) ==
    LET item == tree.items[run.i + 1]
        failures == consecutive_failures + 1
    IN
    /\ run.at = "items"
    /\ IF item.malformed
       THEN ok /\ Pass("malformed", [stats EXCEPT !.failed = @ + 1], consecutive_failures)
       ELSE IF tree.kind = "directory" /\ IsBlank(item.content)
       THEN ok /\ Pass("blank", stats, consecutive_failures)
       ELSE IF Unchanged(tree.kind, item, hashes)
       THEN ok /\ Pass("skipped", [stats EXCEPT !.skipped = @ + 1], consecutive_failures)
       ELSE /\ Len(ids) < MaxIndexed
            /\ StoreAdd(item.id, item.content,
                        FileMeta(item.id, item.content,
                                 IF tree.kind = "directory" THEN NoneVal
                                 ELSE CommitMeta(item)),
                        Omitted, Given(FileEmbedText(item.id, item.content)),
                        MockEmbedding(item.content), ok)
            /\ hashes' = Remembered(hashes, tree.kind, item, ok)
            /\ stats' = IF ok THEN [stats EXCEPT !.added = @ + 1]
                        ELSE [stats EXCEPT !.failed = @ + 1]
            /\ consecutive_failures' = IF ok THEN 0 ELSE failures
            /\ run' = After(run.i + 1, ~ok /\ Tripped(failures))
            /\ trail' = [trail EXCEPT !.events = Append(@, IF ok THEN "added" ELSE "failed")]
    /\ hashes_file' = MapFileAfterItem(hashes_file, hashes')
    /\ call' = IndexCall
    /\ scores' = << >>
    /\ top_indices' = << >>
    /\ ret' = << >>
    /\ UNCHANGED <<has_numpy, runVars, mergeVars, tree>>

\* A faulty variant of FlushVector: a run the breaker ended returns at once.
FlushVectorUnlessTripped ==
    /\ run.at = "persist_vector"
    /\ IF Tripped(consecutive_failures)
       THEN run' = [run EXCEPT !.at = "returned"] /\ UNCHANGED <<storage, dirty>>
       ELSE /\ storage' = IF dirty THEN WriteFrom(Truncated, 1) ELSE storage
            /\ dirty' = FALSE
            /\ run' = [run EXCEPT !.at = "persist_keyword"]
    /\ UNCHANGED <<ids, vectors, metadata, numpy_vectors, has_numpy, call, searchVars, raised,
                   runVars, kwVars, mergeVars, hashes, hashes_file, stats,
                   consecutive_failures, tree, trail>>

\* The flush, first step: rag_db.persist() reaches vector_db.persist().
FlushVector ==
    /\ run.at = "persist_vector"
    /\ storage' = IF dirty THEN WriteFrom(Truncated, 1) ELSE storage
    /\ dirty' = FALSE
    /\ run' = [run EXCEPT !.at = "persist_keyword"]
    /\ UNCHANGED <<ids, vectors, metadata, numpy_vectors, has_numpy, call, searchVars, raised,
                   runVars, kwVars, mergeVars, hashes, hashes_file, stats,
                   consecutive_failures, tree, trail>>

\* The flush, second step: keyword_db.persist().
FlushKeyword ==
    /\ run.at = "persist_keyword"
    /\ kw_storage' \in KwWritten(index, kw_dirty, kw_storage)
    /\ kw_dirty' = FALSE
    /\ run' = [run EXCEPT !.at = "save"]
    /\ UNCHANGED <<dbVars, storage, has_numpy, call, searchVars, raised, runVars, index, added,
                   mergeVars, hashes, hashes_file, stats, consecutive_failures, tree, trail>>

\* The flush, last step: _save_hashes() / _save_indexed(), and the run
\* returns its stats.
SaveHashes ==
    /\ run.at = "save"
    /\ hashes_file' = HashFile(hashes)
    /\ run' = [run EXCEPT !.at = "returned"]
    /\ trail' = [trail EXCEPT !.settled = (stats.failed = 0), !.redo = {}]
    /\ UNCHANGED <<dbVars, storage, has_numpy, call, searchVars, raised, runVars, kwVars,
                   mergeVars, hashes, stats, consecutive_failures, tree>>

\* The ids the run under way has indexed.
Indexed ==
    {tree.items[i].id : i \in {j \in 1..Len(trail.events) : trail.events[j] = "added"}}

\* The process dies between two steps and a new one constructs the indexer
\* on the same storage directory: the three files are loaded.
CrashIndexer ==
    LET got == Load(storage) IN
    /\ tree.kind # "none"
    /\ crashes < MaxDeaths
    /\ crashes' = crashes + 1
    /\ ids' = got.ids
    /\ vectors' = got.vectors
    /\ metadata' = got.metadata
    /\ dirty' = FALSE
    /\ numpy_vectors' = IF has_numpy /\ got.error = "" /\ Len(got.vectors) > 0
                        THEN Array(got.vectors) ELSE NoArray
    /\ index' = KwLoad(kw_storage).index
    /\ kw_dirty' = FALSE
    /\ hashes' = LoadHashes(hashes_file)
    /\ stats' = NoStats
    /\ consecutive_failures' = 0
    /\ run' = Idle
    /\ trail' = [trail EXCEPT !.events = << >>, !.crashed = run.at,
                              !.redo = IF run.at \in {"idle", "returned"} THEN @ ELSE Indexed]
    /\ call' = [op |-> "open", q |-> << >>, k |-> 0]
    /\ raised' = got.error
    /\ scores' = << >>
    /\ top_indices' = << >>
    /\ ret' = << >>
    /\ UNCHANGED <<storage, has_numpy, pc, pending, written, completed, added, kw_storage,
                   mergeVars, hashes_file, tree>>

NextIndexer ==
    \/ Mount
    \/ Modify
    \/ StartRun
    \/ \E ok \in BOOLEAN : ProcessItem(ok)
    \/ FlushVector
    \/ FlushKeyword
    \/ SaveHashes
    \/ CrashIndexer

SpecIndexer == Init /\ [][NextIndexer]_vars

\* The files a write of the flush leaves when the process dies inside it.
\* Each of the three files is opened with "w", which empties it, and then
\* written: the vector file one record after the other, the keyword file
\* and the change map as one JSON document, of which a part is no document.
TornFiles ==
    IF run.at = "persist_vector" /\ dirty
    THEN {[storage |-> [exists |-> TRUE,
                        lines |-> SubSeq(WriteFrom(Truncated, 1).lines, 1, n)],
           kw_storage |-> kw_storage, hashes_file |-> hashes_file] :
             n \in 0..(Len(ids) - 1)}
    ELSE IF run.at = "persist_keyword" /\ kw_dirty
    THEN {[storage |-> storage, kw_storage |-> Truncated, hashes_file |-> hashes_file]}
    ELSE IF run.at = "save"
    THEN {[storage |-> storage, kw_storage |-> kw_storage, hashes_file |-> Truncated]}
    ELSE {}

\* The process dies inside a write of the flush and a new one constructs
\* the indexer on the same storage directory.
CrashInFlush ==
    \E torn \in TornFiles :
        LET got == Load(torn.storage) IN
        /\ tree.kind # "none"
        /\ crashes < MaxDeaths
        /\ crashes' = crashes + 1
        /\ storage' = torn.storage
        /\ kw_storage' = torn.kw_storage
        /\ hashes_file' = torn.hashes_file
        /\ ids' = got.ids
        /\ vectors' = got.vectors
        /\ metadata' = got.metadata
        /\ dirty' = FALSE
        /\ numpy_vectors' = IF has_numpy /\ got.error = "" /\ Len(got.vectors) > 0
                            THEN Array(got.vectors) ELSE NoArray
        /\ index' = KwLoad(torn.kw_storage).index
        /\ kw_dirty' = FALSE
        /\ hashes' = LoadHashes(torn.hashes_file)
        /\ stats' = NoStats
        /\ consecutive_failures' = 0
        /\ run' = Idle
        /\ trail' = [trail EXCEPT !.events = << >>, !.crashed = run.at, !.redo = Indexed]
        /\ call' = [op |-> "open", q |-> << >>, k |-> 0]
        /\ raised' = IF got.error # "" THEN got.error ELSE KwLoad(torn.kw_storage).error
        /\ scores' = << >>
        /\ top_indices' = << >>
        /\ ret' = << >>
        /\ UNCHANGED <<has_numpy, pc, pending, written, completed, added, mergeVars, tree>>

NextTorn ==
    \/ NextIndexer
    \/ CrashInFlush

SpecTorn == Init /\ [][NextTorn]_vars

\* ------------------------------------------------------------------ C7

\* The ids of a result list.
Range(s) == {s[i] : i \in 1..Len(s)}

\* C7: after any sequence of KeywordDB.add calls, search(query) returns
\* exactly the ids for which some add(id, text) had a lowercased word token in
\* common with the query's tokens: the union over the query's tokens.
C7_KeywordOr ==
    call.op = "kw_search" =>
        /\ Range(ret) =
              {p[1] : p \in {a \in added :
                  Tokenize(a[2]) \cap Tokenize(call.query) # {}}}
        /\ Len(ret) = Cardinality(Range(ret))

\* A query of two tokens returned a document that holds only one of them.
C7_Witness ==
    /\ call.op = "kw_search"
    /\ Cardinality(Tokenize(call.query)) = 2
    /\ \E i \in 1..Len(call.query) : Lower(call.query[i].c) # call.query[i].c
    /\ \E a \in added :
          /\ a[1] \in Range(ret)
          /\ Cardinality(Tokenize(a[2]) \cap Tokenize(call.query)) = 1
          /\ \A b \in added : b[1] = a[1] => b = a

\* ------------------------------------------------------------------ C8

\* C8: after every add_file(file_path, content, ...) that succeeds, with or
\* without an embed text or a precomputed vector and however long the content
\* is, every token of the full content has file_path in its posting set, and
\* a keyword search for that token finds file_path.
C8_FullContentIndexed ==
    (call.op = "add_file" /\ raised = "") =>
        \A t \in Tokenize(call.content) :
            /\ t \in DOMAIN index
            /\ call.file_path \in index[t]
            /\ call.file_path \in KwSearchSet(index, t)

\* A content longer than the budget was indexed, its embedded text was cut,
\* and a token that only occurs past the cut is in the index.
C8_Witness ==
    /\ call.op = "add_file"
    /\ raised = ""
    /\ ~call.vector.given
    /\ ~call.embed_text.given
    /\ TextLen(call.content) > MAX_CHARS
    /\ \E t \in Tokenize(call.content) \ Tokenize(call.to_embed) :
          t \in DOMAIN index /\ call.file_path \in index[t]

\* ------------------------------------------------------------------ C9

\* The entries of the merged list with the id.
MergedOf(id) == {i \in 1..Len(merged) : merged[i].id = id}

\* The cosine scores the vector candidate list has for the id.
CosinesOf(id) ==
    {vector_hits[i].score : i \in {j \in 1..Len(vector_hits) : vector_hits[j].id = id}}

KeywordSet == {keyword_hits[i] : i \in 1..Len(keyword_hits)}

VectorIds == {vector_hits[i].id : i \in 1..Len(vector_hits)}

\* C9: in the fusion step an id that is a vector candidate and in the keyword
\* result set gets min(1.0, cosine + 0.2), which never exceeds 1.0, and an id
\* that is a vector candidate but not in the keyword set keeps its cosine
\* score; the id is in the merged list once.
C9_BoostClamped ==
    call.op = "merge" =>
        \A id \in VectorIds :
            /\ Cardinality(MergedOf(id)) = 1
            /\ \A i \in MergedOf(id) :
                  IF id \in KeywordSet
                  THEN /\ \E c \in CosinesOf(id) :
                            merged[i].score = (IF c + 200 > 1000 THEN 1000 ELSE c + 200)
                       /\ merged[i].score <= 1000
                  ELSE merged[i].score \in CosinesOf(id)

\* A candidate of cosine 0.9 that is a keyword hit came out at 1.0, and
\* another candidate that is no keyword hit kept its score.
C9_Witness ==
    /\ call.op = "merge"
    /\ \E i \in 1..Len(merged) :
          /\ merged[i].id \in KeywordSet
          /\ CosinesOf(merged[i].id) = {900}
          /\ merged[i].score = 1000
    /\ \E i \in 1..Len(merged) :
          /\ merged[i].id \in VectorIds \ KeywordSet
          /\ CosinesOf(merged[i].id) = {merged[i].score}

\* ------------------------------------------------------------------ C10

\* The ids that are keyword results but no vector candidates.
KeywordOnly == KeywordSet \ VectorIds

\* C10 as stated: every keyword-only id gets a score s with 0.4 <= s < 0.5,
\* whatever its position in the keyword result list, position 0 included.
C10_KeywordOnlyBelowHalf ==
    call.op = "merge" =>
        \A id \in KeywordOnly :
            \A i \in MergedOf(id) : 400 <= merged[i].score /\ merged[i].score < 500

\* C10, amended: every keyword-only id gets a score s with 0.4 <= s <= 0.5,
\* namely max(0.4, 0.5 - 0.02 * position), and s = 0.5 exactly when the id is
\* at position 0 of the keyword result list.
C10_KeywordOnlyRange ==
    call.op = "merge" =>
        \A id \in KeywordOnly :
            /\ Cardinality(MergedOf(id)) = 1
            /\ \A i \in MergedOf(id) :
                  /\ 400 <= merged[i].score /\ merged[i].score <= 500
                  /\ merged[i].score = 500 <=> keyword_hits[1] = id
                  /\ \E p \in 1..Len(keyword_hits) :
                        /\ keyword_hits[p] = id
                        /\ merged[i].score =
                              (IF 500 - (20 * (p - 1)) < 400 THEN 400
                               ELSE 500 - (20 * (p - 1)))

\* Keyword-only ids at position 0, at a middle position and at a position
\* where the floor applies were scored.
C10_Witness ==
    /\ call.op = "merge"
    /\ Len(keyword_hits) >= 7
    /\ {keyword_hits[1], keyword_hits[3], keyword_hits[7]} \subseteq KeywordOnly
    /\ \E i, j \in 1..Len(merged) :
          /\ merged[i].id = keyword_hits[1] /\ merged[i].score = 500
          /\ merged[j].id = keyword_hits[7] /\ merged[j].score = 400

\* ------------------------------------------------------------------ C11

\* The ids of the list Store.search returned.
FoundIds == {found[i].id : i \in 1..Len(found)}

\* C11: Store.search(query, k) with k >= 1 drops no keyword hit: when the
\* keyword lookup for the query returns at most k ids, each of them is in the
\* returned list, whether or not it was among the vector candidates.
C11_KeywordHitsKept ==
    (call.op = "store_search" /\ raised = "" /\ call.k >= 1
        /\ Len(keyword_hits) <= call.k) =>
        \A i \in 1..Len(keyword_hits) : keyword_hits[i] \in FoundIds

\* ------------------------------------------------------------------ C12

\* The ids that were indexed with a text that shares a token with the query.
Matching(query) ==
    {a[1] : a \in {b \in added : Tokenize(b[2]) \cap Tokenize(query) # {}}}

\* C12: with a query vector of zero norm Store.search returns only ids whose
\* indexed text shares a token with the query; when there is such a document
\* and k >= 1 the list is not empty, so a document containing a query token
\* is first, and its score is at least 0.4.
C12_NoSignalKeywordOnly ==
    (call.op = "store_search" /\ raised = "" /\ NormSq(call.q) = 0) =>
        /\ vector_hits = << >>
        /\ FoundIds \subseteq Matching(call.query)
        /\ Len(found) = Min(call.k, Cardinality(Matching(call.query)))
        /\ \A i \in 1..Len(found) :
              found[i].score >= 400 /\ found[i].score <= 500
        /\ (call.k >= 1 /\ Matching(call.query) # {}) =>
              /\ found[1].id \in Matching(call.query)
              /\ found[1].score >= 400

\* A zero query vector against a store of two documents, one of which holds
\* the query token: that document alone came back, first.
C12_Witness ==
    /\ call.op = "store_search"
    /\ raised = ""
    /\ NormSq(call.q) = 0
    /\ Len(ids) = 2
    /\ ids[1] # ids[2]
    /\ Cardinality(Matching(call.query)) = 1
    /\ Len(found) = 1
    /\ found[1].id \in Matching(call.query)
    /\ found[1].score = 500

\* ------------------------------------------------------------------ C13

\* The files of the results of the last localized search.
ResultFiles == {rag_results[i].file : i \in 1..Len(rag_results)}

\* C13: a localized search with k that returns has results about at most k
\* distinct files, none of them a chunk id, and it localized no file twice:
\* every file of a result was localized, and no file occurs twice among the
\* localized ones.
C13_AtMostKFiles ==
    (call.op = "rag_search" /\ raised = "") =>
        /\ Cardinality(ResultFiles) <= call.k
        /\ \A file \in ResultFiles : ~HasChunkMarker(file)
        /\ \A file \in ResultFiles :
              \E n \in 1..Len(call.localized) : call.localized[n] = file
        /\ \A m, n \in 1..Len(call.localized) :
              call.localized[m] = call.localized[n] => m = n

\* A search with k = 1 found two files and a cached chunk, and returned
\* results about one file.
C13_Witness ==
    /\ call.op = "rag_search"
    /\ raised = ""
    /\ call.k = 1
    /\ \E i \in 1..Len(ids) : HasChunkMarker(ids[i])
    /\ Cardinality({found[i].id : i \in 1..Len(found)}) >= 2
    /\ Cardinality(ResultFiles) = 1

\* ------------------------------------------------------------------ C14

\* The contents cached for a file: the content of each record of that id.
CachedContents(file) ==
    {metadata[i].content : i \in {j \in 1..Len(ids) :
        ids[j] = file /\ "content" \in DOMAIN metadata[j]}}

\* The lines of content that contain a term of the query, letter case aside.
MatchingLines(content, query) ==
    LET lines == SplitLines(content)
        terms == FindAllWords(query)
    IN  {j \in 1..Len(lines) :
            \E t \in 1..Len(terms) :
                Contains(LowerText(lines[j]), LowerText(terms[t]))}

\* The result r shows the lines line .. line + 2 of content, as far as there
\* are that many, and one of them is a matching line.
ShowsWindow(r, content, query) ==
    LET lines == SplitLines(content)
        last == Min(r.line + 2, Len(lines))
    IN  /\ r.line \in 1..Len(lines)
        /\ r.snippet = Join(<<Run("\n", 1)>>, SubSeq(lines, r.line, last))
        /\ \E j \in MatchingLines(content, query) : r.line <= j /\ j <= last

\* C14: every result with full_match = true of a localized search has as its
\* line the 1-based number of the first line of a window of at most three
\* consecutive lines of a content cached for its file, as its snippet those
\* lines, and in the window a line that contains a term of the query.
C14_WindowShown ==
    (call.op = "rag_search" /\ raised = "") =>
        \A n \in 1..Len(rag_results) :
            rag_results[n].full_match =>
                \E content \in CachedContents(rag_results[n].file) :
                    ShowsWindow(rag_results[n], content, call.query)

\* A file of three lines whose only matching line is line 2 was found, and
\* the window of its result holds line 2.
C14_Witness ==
    /\ call.op = "rag_search"
    /\ raised = ""
    /\ \E n \in 1..Len(rag_results) :
          /\ rag_results[n].full_match
          /\ CachedContents(rag_results[n].file) # {}
          /\ \A content \in CachedContents(rag_results[n].file) :
                /\ Len(SplitLines(content)) = 3
                /\ MatchingLines(content, call.query) = {2}
                /\ ShowsWindow(rag_results[n], content, call.query)
                /\ rag_results[n].line <= 2

\* ------------------------------------------------------------------ C19

\* What VectorDB holds in memory, as a load would return it.
InMemory == [ids |-> ids, vectors |-> vectors, metadata |-> metadata, error |-> ""]

\* A step of VectorDB.persist: memory is as it was and the flag is clear;
\* with the flag clear before, the file is untouched; with the flag set,
\* the file holds exactly the entries in memory.
VectorPersistStep ==
    call'.op = "persist" /\ call' # call =>
        /\ <<ids, vectors, metadata>>' = <<ids, vectors, metadata>>
        /\ ~dirty'
        /\ IF dirty THEN storage'.exists /\ Load(storage') = InMemory
           ELSE storage' = storage

\* The same step of KeywordDB.persist.
KeywordPersistStep ==
    call'.op = "kw_persist" /\ call' # call =>
        /\ index' = index
        /\ ~kw_dirty'
        /\ IF kw_dirty THEN kw_storage'.exists /\ KwLoad(kw_storage').index = index
           ELSE kw_storage' = kw_storage

\* The flag of an index is set when and only when an add was made to that
\* index since its last persist or load: only an add that went through
\* changes memory and it sets both flags; a persist and a load clear theirs.
FlagFollowsAdds ==
    /\ (dirty' /\ ~dirty) \/ <<ids, vectors, metadata>>' # <<ids, vectors, metadata>> =>
          call'.op \in {"add_file", "open"}
    /\ (kw_dirty' /\ ~kw_dirty) \/ index' # index =>
          call'.op \in {"add_file", "kw_open"}
    /\ call'.op = "add_file" /\ raised' = "" => dirty' /\ kw_dirty'
    /\ call'.op = "add_file" /\ raised' # "" =>
          UNCHANGED <<ids, vectors, metadata, dirty, index, kw_dirty>>
    /\ call'.op = "open" /\ call' # call => ~dirty'
    /\ call'.op = "kw_open" /\ call' # call => ~kw_dirty'

\* C19: VectorDB.persist and KeywordDB.persist write nothing when no add
\* happened since the last persist or since load; after an add they rewrite
\* the whole file so that it holds exactly the entries in memory; memory is
\* unchanged; a second persist in a row leaves the file as the first left it.
C19_PersistWritesMemory ==
    [][/\ VectorPersistStep
       /\ KeywordPersistStep
       /\ FlagFollowsAdds
       /\ call.op = "persist" /\ call'.op = "persist" => storage' = storage
       /\ call.op = "kw_persist" /\ call'.op = "kw_persist" => kw_storage' = kw_storage]_vars

\* Both indexes hold two files, both were rewritten by a persist after the
\* adds, and the last step was a persist.
C19_Witness ==
    /\ call.op \in {"persist", "kw_persist"}
    /\ Len(ids) = 2
    /\ ~dirty
    /\ ~kw_dirty
    /\ kw_storage.exists
    /\ Load(storage) = InMemory
    /\ KwLoad(kw_storage).index = index
    /\ DOMAIN index # {}

\* ------------------------------------------------------------------ C15

\* The events of the run in which the embedder was called.
EmbeddingCalls == {i \in 1..Len(trail.events) : trail.events[i] \in {"added", "failed"}}

\* A run of index_directory has returned that started after a run without
\* failure, with the files as that run left them.
RerunReturned == tree.kind = "directory" /\ run.at = "returned" /\ trail.rerun

\* C15: after a run of index_directory in which no item failed, a run over
\* the unmodified files calls no embedder, appends no record to the vector
\* file and returns added = 0, failed = 0 and skipped = the number of files.
C15_RerunSkipsAll ==
    RerunReturned =>
        /\ EmbeddingCalls = {}
        /\ storage = trail.storage_before
        /\ stats = [added |-> 0, skipped |-> Len(tree.items), failed |-> 0]

\* ------------------------------------------------------------------ C16

\* Every fingerprint of the map stands for a call of add_file that returned:
\* for that id, and in a directory for the content of that fingerprint.
Earned(map) ==
    \A id \in DOMAIN map :
        \E p \in added :
            /\ p[1] = id
            /\ tree.kind = "directory" => map[id] = ComputeHash(p[2])

\* An item is skipped only after add_file returned for it.
SkippedOnlyIndexed ==
    \A i \in 1..Len(trail.events) :
        trail.events[i] = "skipped" =>
            \E p \in added :
                /\ p[1] = tree.items[i].id
                /\ tree.kind = "directory" => p[2] = tree.items[i].content

\* The step in which add_file raised leaves the change map as it was.
FailureKeepsMap ==
    /\ Len(trail'.events) > Len(trail.events)
    /\ trail'.events[Len(trail'.events)] = "failed"
    => hashes' = hashes

\* C16: the change map is updated for an item only after add_file returned
\* for it: a failed item gets no new fingerprint, no later run skips it
\* before it was indexed, and a fingerprint in the map, in memory or on
\* disk, implies a completed call for that id and content.
C16_MapOnlyAfterSuccess ==
    /\ [](Earned(hashes) /\ Earned(LoadHashes(hashes_file)) /\ SkippedOnlyIndexed)
    /\ [][FailureKeepsMap]_vars

\* A run has returned in which one item failed and has no fingerprint and
\* another was indexed and has one, also on disk.
C16_Witness ==
    /\ run.at = "returned"
    /\ \E i, j \in 1..Len(trail.events) :
          /\ trail.events[i] = "failed"
          /\ tree.items[i].id \notin DOMAIN hashes
          /\ trail.events[j] = "added"
          /\ tree.items[j].id \in DOMAIN LoadHashes(hashes_file)

\* ------------------------------------------------------------------ C17

\* The items counted as failed among the last n events with no item indexed
\* after them.
RECURSIVE FailedSinceSuccess(_, _)
FailedSinceSuccess(events, n) ==
    IF n = 0 \/ events[n] = "added" THEN 0
    ELSE FailedSinceSuccess(events, n - 1)
         + (IF events[n] \in {"failed", "malformed"} THEN 1 ELSE 0)

\* A run is under way or has just returned.
InRun == run.at \in {"items", "persist_vector", "persist_keyword", "save", "returned"}

\* C17: in a run of either indexer the failure counter is 0 at the start
\* and after every indexed item; once three items have failed with no item
\* indexed between them no later item is processed, and the run stops
\* before its items are through only then.
C17_StopsAtThreeFailures ==
    InRun =>
        LET n == Len(trail.events)
            failed == FailedSinceSuccess(trail.events, n)
        IN
        /\ n = 0 \/ trail.events[n] = "added" => consecutive_failures = 0
        /\ failed >= MAX_CONSECUTIVE_FAILURES => run.at # "items"
        /\ run.at # "items" /\ run.i < Len(tree.items) => failed >= MAX_CONSECUTIVE_FAILURES

\* ------------------------------------------------------------------ C18

\* The run that has just returned was ended by the breaker.
AbortedReturned == run.at = "returned" /\ Tripped(consecutive_failures)

\* The vector file holds a record of the item with its content.
RecordOnDisk(item) ==
    LET got == Load(storage) IN
    \E n \in 1..Len(got.ids) :
        /\ got.ids[n] = item.id
        /\ got.metadata[n].content = item.content

\* The keyword file holds the item under every token of its content.
PostingsOnDisk(item) ==
    LET got == KwLoad(kw_storage).index IN
    \A t \in Tokenize(item.content) : t \in DOMAIN got /\ item.id \in got[t]

\* The change map file holds the fingerprint of the item.
FingerprintOnDisk(item) ==
    LET got == LoadHashes(hashes_file) IN
    item.id \in DOMAIN got /\ got[item.id] = Fingerprint(tree.kind, item)

\* The number of events of one kind in the run.
Count(what) == Cardinality({i \in 1..Len(trail.events) : trail.events[i] \in what})

\* C18: a run the breaker ended returns its stats, and every item it had
\* indexed has its record in the vector file, its postings in the keyword
\* file and its fingerprint in the change map file when it returns.
C18_AbortedRunFlushes ==
    AbortedReturned =>
        /\ stats = [added |-> Count({"added"}), skipped |-> Count({"skipped"}),
                    failed |-> Count({"failed", "malformed"})]
        /\ \A i \in 1..Len(trail.events) :
              trail.events[i] = "added" =>
                  /\ RecordOnDisk(tree.items[i])
                  /\ PostingsOnDisk(tree.items[i])
                  /\ FingerprintOnDisk(tree.items[i])

\* The breaker has ended a run that had indexed an item, and the run has
\* returned.
C18_Witness ==
    /\ AbortedReturned
    /\ stats.added > 0
    /\ stats.failed = MAX_CONSECUTIVE_FAILURES

\* ------------------------------------------------------------------ C20

\* The loop of a run is under way or through and the flush has written
\* nothing yet.
BeforeFlush == run.at \in {"items", "persist_vector"}

\* The process died before the flush of its run had written anything, and
\* no run has started since.
DiedBeforeFlush == run.at = "idle" /\ trail.crashed \in {"items", "persist_vector"}

\* The keyword file and the change map file are as the run found them.
FilesAsBefore == kw_storage = trail.kw_before /\ hashes_file = trail.hashes_before

\* A step of the loop leaves the keyword file and the change map file alone.
LoopStepKeepsFiles ==
    run.at = "items" => kw_storage' = kw_storage /\ hashes_file' = hashes_file

\* No item that the process had indexed in the run it died in is skipped by
\* the run that follows: add_file is called for it again.
RedoneAfterCrash ==
    \A i \in 1..Len(trail.events) :
        tree.items[i].id \in trail.redo => trail.events[i] \in {"added", "failed"}

\* C20: until the flush at the end of a run the keyword file and the change
\* map file are as they were when the run started, whatever was added; so
\* they are after a crash in the middle of the run, and the next run calls
\* add_file again for every item the crashed run had indexed.
C20_FlushedOnlyAtEnd ==
    /\ [](BeforeFlush \/ DiedBeforeFlush => FilesAsBefore)
    /\ [](run.at = "items" => RedoneAfterCrash)
    /\ [][LoopStepKeepsFiles]_vars

\* The process died in the loop after it had indexed an item: the vector
\* file has the record, the other two files are as before the run, and the
\* item is not in the change map.
C20_Witness ==
    /\ DiedBeforeFlush
    /\ trail.redo # {}
    /\ storage # trail.storage_before
    /\ FilesAsBefore
    /\ \A id \in trail.redo : id \notin DOMAIN hashes

\* The run after such a death has indexed an item again.
C20_WitnessRedone ==
    /\ run.at = "items"
    /\ \E i \in 1..Len(trail.events) :
          tree.items[i].id \in trail.redo /\ trail.events[i] = "added"

\* ------------------------------------------------------------------ C21

\* No chunk id has two records in the list.
OneRecordPerChunk(list) ==
    \A i, j \in 1..Len(list) : list[i] = list[j] /\ HasChunkMarker(list[i]) => i = j

\* Every chunk record of got is in later with the same vector and metadata.
ChunksKept(got, later) ==
    \A j \in 1..Len(got.ids) :
        HasChunkMarker(got.ids[j]) =>
            \E n \in 1..Len(later.ids) :
                /\ later.ids[n] = got.ids[j]
                /\ later.vectors[n] = got.vectors[j]
                /\ later.metadata[n] = got.metadata[j]

\* The chunk ids a search embedded were not stored before it, and none of
\* them was embedded twice in it.
EmbedsOnlyNewChunks ==
    call'.op = "rag_search" /\ call' # call =>
        \A m \in 1..Len(call'.embedded) :
            /\ \A j \in 1..Len(ids) : ids[j] # call'.embedded[m]
            /\ \A n \in 1..Len(call'.embedded) :
                  call'.embedded[n] = call'.embedded[m] => n = m

\* C21: over searches, persists, restarts and re-indexing of the parent
\* file the vector log holds at most one record per chunk id, in memory and
\* on disk; no step modifies or removes a chunk record; and a search embeds
\* only chunks that have no record yet, each of them once, so a stored chunk
\* is never embedded again.
C21_ChunkCachedOnce ==
    /\ [](OneRecordPerChunk(ids) /\ OneRecordPerChunk(Load(storage).ids))
    /\ [][/\ ChunksKept(InMemory, [ids |-> ids', vectors |-> vectors',
                                   metadata |-> metadata'])
          /\ ChunksKept(Load(storage), Load(storage'))
          /\ EmbedsOnlyNewChunks]_vars

\* g was indexed twice with different contents, the store holds one record
\* of its chunk, and the last search localized g by that chunk without a
\* call of the embedder for it.
C21_Witness ==
    /\ call.op = "rag_search"
    /\ raised = ""
    /\ call.embedded = << >>
    /\ \E i, j \in FileRecords :
          ids[i] = "g" /\ ids[j] = "g" /\ metadata[i].content # metadata[j].content
    /\ \E n \in 1..Len(ids) : ids[n] = ChunkId("g", 0)
    /\ \E n \in 1..Len(rag_results) :
          rag_results[n].file = "g" /\ ~rag_results[n].full_match

\* ------------------------------------------------------------------ C22

\* The candidates of the broad pass that stand for a file: the positions of
\* found whose record is no chunk record and whose file is named by no
\* earlier such record.
DistinctFiles(list) ==
    {n \in 1..Len(list) :
        /\ ~HasChunkMarker(list[n].id)
        /\ \A m \in 1..(n - 1) :
              \/ HasChunkMarker(list[m].id)
              \/ MetaGet(list[m].meta, "file_path", list[m].id)
                     # MetaGet(list[n].meta, "file_path", list[n].id)}

\* Of DistinctFiles, those with cached content.
DistinctFilesWithContent(list) ==
    {n \in DistinctFiles(list) : TextLen(MetaGet(list[n].meta, "content", << >>)) > 0}

\* The candidate n is among the first k of the set of positions.
AmongFirst(n, positions, k) ==
    n \in positions /\ Cardinality({m \in positions : m <= n}) <= k

\* The records after the first n of a log.
AppendedAfter(log, n) ==
    {[id |-> log.ids[j], meta |-> log.metadata[j]] : j \in (n + 1)..Len(log.ids)}

\* The log `later` begins with the records of `got`.
Extends(got, later) ==
    /\ Len(later.ids) >= Len(got.ids)
    /\ SubSeq(later.ids, 1, Len(got.ids)) = got.ids
    /\ SubSeq(later.vectors, 1, Len(got.ids)) = got.vectors
    /\ SubSeq(later.metadata, 1, Len(got.ids)) = got.metadata

\* No line of the content contains a word of the query, whatever the case
\* of the letters.
NoLineMatches(content, query) ==
    LET lines == SplitLines(content)
        words == FindAllWords(query)
    IN  \A i \in 1..Len(lines), j \in 1..Len(words) :
            ~Contains(LowerText(lines[i]), LowerText(words[j]))

\* The record is a chunk of a file that the search just made (call', found')
\* takes from the given positions of the broad pass, with more than 10 lines
\* and without a window for the query.
ChunkOfLocalized(record, positions) ==
    /\ HasChunkMarker(record.id)
    /\ \E n \in positions :
          LET content == MetaGet(found'[n].meta, "content", << >>) IN
          /\ AmongFirst(n, positions, call'.k)
          /\ MetaGet(record.meta, "file_path", << >>)
                 = MetaGet(found'[n].meta, "file_path", found'[n].id)
          /\ Len(SplitLines(content)) > SmallFileLines
          /\ NoLineMatches(content, call'.query)

\* A search step keeps the records of the log, in memory and in the file,
\* the KeywordIndex and its file, and appends to both copies of the log only
\* chunks of the files at the given positions.
SearchAppendsOnly(positions) ==
    call'.op = "rag_search" /\ call' # call =>
        /\ Extends(InMemory, [ids |-> ids', vectors |-> vectors', metadata |-> metadata'])
        /\ Extends(Load(storage), Load(storage'))
        /\ index' = index
        /\ kw_storage' = kw_storage
        /\ \A record \in AppendedAfter([ids |-> ids', metadata |-> metadata'], Len(ids)) :
              ChunkOfLocalized(record, positions)
        /\ \A record \in AppendedAfter(Load(storage'), Len(Load(storage).ids)) :
              ChunkOfLocalized(record, positions)

\* C22 as stated: RetrievalIndex.search appends records to the VectorLog only
\* for chunks of files that are among the first k distinct files of the broad
\* pass, have more than 10 lines and have no line window containing a query
\* term; it changes no other record, and neither the KeywordIndex nor its
\* file.
C22_ChunksOnlyForFirstK ==
    [][SearchAppendsOnly(DistinctFiles(found'))]_vars

\* C22 amended: the files that count towards k are the distinct files of the
\* broad pass with cached content; a file without content is passed over and
\* the next file takes its place. RetrievalIndex.search appends records to
\* the VectorLog only for chunks of files that are among the first k distinct
\* files with cached content, have more than 10 lines and have no line
\* window containing a query term; it changes no other record, and neither
\* the KeywordIndex nor its file.
C22_ChunksOnlyForFirstKWithContent ==
    [][SearchAppendsOnly(DistinctFilesWithContent(found'))]_vars

\* A search with k = 1 whose broad pass returned two files made a chunk
\* record for one of them.
C22_Witness ==
    /\ call.op = "rag_search"
    /\ raised = ""
    /\ call.k = 1
    /\ Len(call.embedded) > 0
    /\ Cardinality(DistinctFiles(found)) = 2
    /\ \E n \in 1..Len(ids) : ids[n] = call.embedded[1]

\* ------------------------------------------------------------------ C23

\* The search of the step repeats the search whose lists the caller holds.
SameSearch ==
    /\ call.op = "rag_search"
    /\ raised = ""
    /\ call'.op = "rag_search"
    /\ raised' = ""
    /\ call'.query = call.query
    /\ call'.k = call.k
    /\ call'.q = call.q

\* C23: applying index_item a second time with the same id and the same
\* content leaves the result list of every search(query, k) as it was after
\* the first application: a search made again after the second application
\* returns the list it returned before it.
C23_SecondAddKeepsResults ==
    [][SameSearch /\ ~NoneTwice => rag_results' = rag_results]_vars

\* ------------------------------------------------------------------ C24

\* The start lines of the keyword windows the search returned for the file.
KeptWindows(file_path) ==
    {rag_results[n].line : n \in {m \in 1..Len(rag_results) :
        rag_results[m].file = file_path /\ rag_results[m].full_match}}

\* The lines of the newest record of the file.
LinesOf(file_path) ==
    LET at == {i \in 1..Len(ids) : ids[i] = file_path}
        newest == CHOOSE i \in at : \A j \in at : j <= i
    IN  IF at = {} THEN << >> ELSE SplitLines(metadata[newest].content)

\* The match count of the window that starts at line i, for the query of
\* the search.
CountAt(file_path, i) ==
    LET words == FindAllWords(call.query) IN
    MatchCount(LinesAt(LinesOf(file_path), i, WindowSize),
               [j \in 1..Len(words) |-> LowerText(words[j])])

\* The distance of two lines.
Apart(i, j) == IF i >= j THEN i - j ELSE j - i

\* C24: the keyword windows kept for one file start at least window_size (3)
\* lines from each other, every kept window contains a query term, and a
\* window with a query term is dropped only when a kept window with a match
\* count at least as high starts fewer than window_size lines away.
C24_WindowsApart ==
    call.op = "rag_search" /\ raised = "" =>
        \A file_path \in {rag_results[n].file : n \in 1..Len(rag_results)} :
            LET kept == KeptWindows(file_path) IN
            /\ \A i, j \in kept : i # j => Apart(i, j) >= WindowSize
            /\ \A n, m \in 1..Len(rag_results) :
                  /\ rag_results[n].file = file_path /\ rag_results[n].full_match
                  /\ rag_results[m].file = file_path /\ rag_results[m].full_match
                  /\ rag_results[n].line = rag_results[m].line
                  => n = m
            /\ \A i \in kept : CountAt(file_path, i) > 0
            /\ kept # {} =>
                  \A i \in 1..Len(LinesOf(file_path)) :
                      CountAt(file_path, i) > 0 /\ i \notin kept =>
                          \E j \in kept :
                              /\ Apart(i, j) < WindowSize
                              /\ CountAt(file_path, j) >= CountAt(file_path, i)

\* A search returned two windows of a file and dropped a window between them
\* whose match count is below that of a kept window next to it.
C24_Witness ==
    /\ call.op = "rag_search"
    /\ raised = ""
    /\ Cardinality(KeptWindows("f")) >= 2
    /\ \E i \in 1..Len(LinesOf("f")) :
          /\ i \notin KeptWindows("f")
          /\ CountAt("f", i) > 0
          /\ \E j \in KeptWindows("f") :
                Apart(i, j) < WindowSize /\ CountAt("f", j) > CountAt("f", i)

\* ------------------------------------------------------------------ C25

\* C25: for a file localized by keyword windows, every line of the cached
\* content that contains a query term lies inside one of the windows
\* returned for the file.
C25_MatchingLinesShown ==
    call.op = "rag_search" /\ raised = "" =>
        \A file_path \in {rag_results[n].file : n \in 1..Len(rag_results)} :
            KeptWindows(file_path) # {} =>
                \A i \in 1..Len(LinesOf(file_path)) :
                    (\E word \in Range(FindAllWords(call.query)) :
                        Contains(LowerText(LinesOf(file_path)[i]), LowerText(word)))
                    => \E j \in KeptWindows(file_path) :
                          j <= i /\ i <= j + WindowSize - 1

\* ------------------------------------------------------------------ C26

\* The text is the prefix that names the file followed by a prefix of the
\* content.
NamedPrefix(text, file_path, content) ==
    \E n \in 0..TextLen(content) :
        Normal(text) = Normal(FilePrefix \o PathText(file_path) \o <<Run("\n", 2)>>
                                \o TakeChars(content, n))

\* C26: the text that add_file hands to the embedding provider, no embed
\* text or vector given, is at most the budget of 900 characters long, and
\* for a content longer than the budget it is the prefix naming the id
\* followed by a prefix of the content.
C26_EmbedTextInBudget ==
    call.op = "add_file" /\ ~call.embed_text.given /\ ~call.vector.given =>
        /\ TextLen(call.to_embed) <= MAX_CHARS
        /\ TextLen(call.content) > MAX_CHARS =>
              NamedPrefix(call.to_embed, call.file_path, call.content)

\* ------------------------------------------------------------------ C27

\* C27: with a deterministic embedding provider and a process without numpy
\* (whose sort keeps equal scores in the order of the log), a search made
\* again with the same query and k, no index_item in between, returns the
\* list the first one returned.
C27_RepeatedSearchSame ==
    [][~has_numpy /\ SameSearch => rag_results' = rag_results]_vars

\* ------------------------------------------------------------------ C28

\* The vector file holds a record of the id, and the keyword file holds the
\* id under every token of the content of that record.
IndexedOnDisk(id) ==
    LET got == Load(storage)
        postings == KwLoad(kw_storage).index
    IN  \E n \in 1..Len(got.ids) :
            /\ got.ids[n] = id
            /\ \A t \in Tokenize(got.metadata[n].content) :
                  t \in DOMAIN postings /\ id \in postings[t]

\* C28: in every on-disk state, also after a crash at any step of a run or
\* of its final flush, every source id in the change map file has a
\* file-level record in the vector file and its tokens in the keyword file.
C28_MapImpliesIndexed ==
    \A id \in DOMAIN LoadHashes(hashes_file) : IndexedOnDisk(id)

\* ------------------------------------------------------------------ C29

\* The step is an item of a run whose embedding failed.
EmbeddingFailed ==
    /\ Len(trail'.events) > Len(trail.events)
    /\ trail'.events[Len(trail'.events)] = "failed"

\* C29: an item whose embedding fails changes nothing: the VectorLog in
\* memory and on disk, the KeywordIndex in memory and on disk and the change
\* map in memory and on disk are as before the call, and the run counts the
\* item as failed, not as added.
C29_FailedAddChangesNothing ==
    [][EmbeddingFailed =>
          /\ ids' = ids
          /\ vectors' = vectors
          /\ metadata' = metadata
          /\ storage' = storage
          /\ index' = index
          /\ kw_storage' = kw_storage
          /\ hashes' = hashes
          /\ hashes_file' = hashes_file
          /\ raised' = "EmbeddingError"
          /\ stats' = [stats EXCEPT !.failed = @ + 1]]_vars

\* An item of a run failed after the run had indexed an item, and the log
\* holds the one record.
C29_Witness ==
    /\ Len(trail.events) >= 2
    /\ trail.events[Len(trail.events)] = "failed"
    /\ \E i \in 1..Len(trail.events) : trail.events[i] = "added"
    /\ stats.failed >= 1
    /\ stats.added = Cardinality({i \in 1..Len(trail.events) : trail.events[i] = "added"})
    /\ Len(ids) = stats.added

\* ------------------------------------------------------------------ C30

\* The file has records of different contents: it was indexed again with a
\* changed content.
IndexedAgain(file_path) ==
    \E i, j \in FileRecords :
        /\ ids[i] = file_path
        /\ ids[j] = file_path
        /\ metadata[i].content # metadata[j].content

\* The line and the snippet of the result are those of a window, of a chunk
\* or of the first meaningful line of the lines.
BuiltFrom(result, lines) ==
    /\ result.line \in 1..Len(lines)
    /\ result.snippet =
          IF result.full_match
          THEN Join(<<Run("\n", 1)>>, LinesAt(lines, result.line, WindowSize))
          ELSE IF Len(lines) > SmallFileLines
          THEN ChunkText(lines, result.line - 1)
          ELSE TakeChars(Strip(lines[result.line]), SnippetChars)

\* C30: after a file was indexed again under its id with a changed content,
\* every result of a search for that file has the line and the snippet of
\* the newest content.
C30_ResultsFromNewest ==
    call.op = "rag_search" /\ raised = "" =>
        \A n \in 1..Len(rag_results) :
            IndexedAgain(rag_results[n].file) =>
                BuiltFrom(rag_results[n], LinesOf(rag_results[n].file))

\* ------------------------------------------------------------------ C1

\* C1: after any sequence of add calls (and persists, and reopenings), a new
\* VectorDB opened on the storage path loads without error exactly the
\* in-memory records: the same count and, position by position, the same id,
\* vector and metadata.
C1_RoundTrip ==
    Opened =>
        LET got == Load(storage) IN
        /\ got.error = ""
        /\ Len(got.ids) = Len(ids)
        /\ got.ids = ids
        /\ got.vectors = vectors
        /\ got.metadata = metadata

\* Several adds were made, with and without metadata, and the file holds them.
C1_Witness ==
    /\ call.op = "add"
    /\ Len(ids) >= 2
    /\ \E i, j \in 1..Len(ids) : metadata[i] = EmptyDict /\ metadata[j] # EmptyDict
    /\ Load(storage).ids = ids
    /\ Load(storage).metadata = metadata

\* ------------------------------------------------------------------ C4

\* The positions search returned.
Returned == {top_indices[i] : i \in 1..Len(top_indices)}

\* C4: for a store of size n, a non-zero query and k >= 0, search returns
\* exactly min(k, n) records, they are the records of the highest scores, and
\* they are listed in non-increasing score order.
C4_TopK ==
    (call.op = "search" /\ raised = "" /\ NormSq(call.q) # 0) =>
        /\ Len(ret) = Min(call.k, Len(ids))
        /\ Cardinality(Returned) = Len(ret)
        /\ \A i \in 1..(Len(ret) - 1) : ret[i].score >= ret[i + 1].score
        /\ \A i \in Returned : \A j \in (1..Len(scores)) \ Returned :
               scores[i] >= scores[j]

\* ------------------------------------------------------------------ C5

\* C5: records with equal score are returned in insertion order, on both
\* search paths.
C5_TiesInInsertionOrder ==
    (call.op = "search" /\ raised = "") =>
        \A i, j \in 1..Len(top_indices) :
            (i < j /\ scores[top_indices[i]] = scores[top_indices[j]])
                => top_indices[i] < top_indices[j]

\* ------------------------------------------------------------------ C6

\* C6: a query of zero norm returns the empty list whatever the store holds;
\* with a non-zero query every stored vector of zero norm is scored exactly 0
\* and no division by zero is raised.
C6_ZeroNorm ==
    call.op = "search" =>
        /\ raised = ""
        /\ NormSq(call.q) = 0 => ret = << >>
        /\ NormSq(call.q) # 0 =>
              /\ Len(scores) = Len(vectors)
              /\ \A i \in 1..Len(vectors) :
                     NormSq(vectors[i]) = 0 => scores[i] = 0
              /\ \A i \in 1..Len(ret) :
                     NormSq(vectors[top_indices[i]]) = 0 => ret[i].score = 0

\* A non-zero query met a stored zero vector, which was returned with score 0
\* next to a record of non-zero score.
C6_Witness ==
    /\ call.op = "search"
    /\ NormSq(call.q) # 0
    /\ raised = ""
    /\ \E i, j \in 1..Len(ret) :
          /\ NormSq(vectors[top_indices[i]]) = 0
          /\ ret[i].score = 0
          /\ ret[j].score > 0

====
